---- MODULE Spec2Model ----
(***************************************************************************)
(* DocFlow: upload orchestration (api-gateway), the worker's               *)
(* ProcessDocument RPC and background pipeline, the Redis progress channel *)
(* and the two progress streams (SSE bridge, gRPC GetProgress); the        *)
(* RedisSubscriberService registry on its own; the annotations gateway.    *)
(*                                                                         *)
(* Identifiers: a UUID is modelled by the index of its row (documents and  *)
(* jobs are appended to their tables).  Every `await` of the source is an  *)
(* interleaving point, so each handler is a chain of actions.              *)
(***************************************************************************)
EXTENDS Integers, Sequences, FiniteSets, TLC

\* ---------------------------------------------------------------- bounds
MaxUploads == 1
MaxJobs == 3
MaxDirect == 1
MaxRetries == 1
MaxConns == 2
MaxObs == 1
MaxTasks == 1
MaxFaults == 1
RaceMaxTasks == 2
MaxChannels == 2
MaxConsumers == 2
MaxMessages == 2
\* messages a consumer may be behind by before it has to be cut off (the
\* documented minimum is 64; scaled down with the number of messages)
BufferBound == 1
\* websocket clients, gateway processes, documents, events sent in all
MaxSockets == 2
MaxInstances == 2
MaxRooms == 2
MaxEmits == 1

\* ------------------------------------------------------ program constants
SIMULATED_PAGE_COUNT == 12
BYTES_PER_MB == 1048576
UPLOAD_MAX_FILE_SIZE_MB == 50
ALLOWED_MIME_TYPES ==
  {"application/pdf", "image/png", "image/jpeg", "image/webp"}
HttpStatus_CREATED == 201

\* GrpcDispatchException: super({...}, HttpStatus.ACCEPTED, { cause })
GrpcDispatchException_status == 202

Users == {"u1", "u2"}
UploadUsers == {"u1"}
UploadIds == 1..MaxUploads
JobIds == 1..MaxJobs
DocIds == 1..MaxUploads
RetryIds == 1..MaxRetries
DirectIds == 1..MaxDirect
ConnIds == 1..MaxConns
ObsIds == 1..MaxObs

\* gRPC call slots: one per upload, one per retry, the rest belong to clients
\* calling the worker's RPC surface directly (duplicate or repeated calls).
UploadCall(u) == u
RetryCall(r) == MaxUploads + r
DirectCall(k) == MaxUploads + MaxRetries + k
CallIds == 1..(MaxUploads + MaxRetries + MaxDirect)

\* RedisSubscriberService seen on its own: channels, local consumers (one
\* Subject each) and the messages published while it runs
Channels == 1..MaxChannels
Consumers == 1..MaxConsumers
MessageKinds == {"json", "malformed"}
SocketIds == 1..MaxSockets
Instances == 1..MaxInstances
Rooms == 1..MaxRooms

VARIABLES docs, jobs, upload, rpc, task, lastEvent, retry, conn, obs, faults,
          subjects, redis, consumer, sockets

vars == <<docs, jobs, upload, rpc, task, lastEvent, retry, conn, obs, faults,
          subjects, redis, consumer, sockets>>

\* the upload pipeline and its streams / the subscriber registry
pipeline == <<docs, jobs, upload, rpc, task, lastEvent, retry, conn, obs, faults>>
registry == <<subjects, redis, consumer>>

\* ------------------------------------------------------------ pure helpers

\* Math.round(num / den) for non-negative operands (round half up).
MathRound(num, den) == (2 * num + den) \div (2 * den)

\* variant: pages scaled to 100 instead of 95
PageProgress_full(page) == MathRound(page * 100, SIMULATED_PAGE_COUNT)

\* const progress = Math.round((page / totalPages) * 95)
PageProgress(page) == MathRound(page * 95, SIMULATED_PAGE_COUNT)

maxFileSizeBytes == UPLOAD_MAX_FILE_SIZE_MB * BYTES_PER_MB

\* validateFile: 0 when the file passes, else the HTTP status thrown.
\* variant: the size is checked before the media type
validateFile_sizeFirst(file) ==
  IF (~file.present) \/ file.size = 0 THEN 400
  ELSE IF file.size > maxFileSizeBytes THEN 413
  ELSE IF file.mimetype \notin ALLOWED_MIME_TYPES THEN 415
  ELSE 0

validateFile(file) ==
  IF (~file.present) \/ file.size = 0 THEN 400
  ELSE IF file.mimetype \notin ALLOWED_MIME_TYPES THEN 415
  ELSE IF file.size > maxFileSizeBytes THEN 413
  ELSE 0

Files ==
  [present : {TRUE},
   size : {0, 1, maxFileSizeBytes, maxFileSizeBytes + 1},
   mimetype : {"application/pdf", "text/plain"}]
    \cup {[present |-> FALSE, size |-> 0, mimetype |-> "application/pdf"]}

\* UploadDocumentResponseDto built at step 5 of uploadDocument
ResponseDtoFields ==
  {"documentId", "jobId", "status", "title", "fileUrl", "fileSizeBytes",
   "mimeType", "createdAt"}

\* body of an HttpException built from { statusCode, error, message }
ExceptionBodyFields == {"statusCode", "error", "message"}

NoBody == [fields |-> {}, jobId |-> 0, documentId |-> 0]

ExceptionBody == [NoBody EXCEPT !.fields = ExceptionBodyFields]

\* ProcessingJobStatus value -> the status literal of a ProgressEvent / the
\* SSE stage (job.status.toUpperCase())
toUpperCase(status) ==
  CASE status = "pending" -> "PENDING"
    [] status = "running" -> "RUNNING"
    [] status = "completed" -> "COMPLETED"
    [] status = "failed" -> "FAILED"
    [] OTHER -> "NONE"

\* rows -------------------------------------------------------------------
NewDocument(userId) ==
  [ownerId |-> userId, status |-> "uploaded", pageCount |-> 0]

NewJob(documentId) ==
  [documentId |-> documentId, status |-> "pending", progress |-> 0,
   errorMessage |-> FALSE, startedAt |-> FALSE, completedAt |-> FALSE]

NoJobRow == [NewJob(0) EXCEPT !.status = "none"]

\* Ids are never reused: the place of a removed row keeps a marker.
NoDocumentRow == [NewDocument("") EXCEPT !.status = "none"]

JobExists(j) == j \in 1..Len(jobs) /\ jobs[j].status # "none"
DocExists(d) == d \in 1..Len(docs) /\ docs[d].status # "none"

RunningJobsOf(d) ==
  {j \in 1..Len(jobs) : jobs[j].documentId = d /\ jobs[j].status = "running"}

JobsOf(d) == {j \in 1..Len(jobs) : jobs[j].documentId = d}

NoEvent == [status |-> "NONE", progress |-> 0, currentPage |-> 0]

IdleUpload == [pc |-> "idle", http |-> 0, documentId |-> 0, jobId |-> 0,
               body |-> NoBody]

IdleRpc == [wpc |-> "idle", client |-> "idle", documentId |-> 0, userId |-> "",
            jobId |-> 0, path |-> "", err |-> ""]

NoTask == [pc |-> "none", documentId |-> 0, page |-> 0, failPersist |-> "none"]

IdleRetry == [pc |-> "idle", jobId |-> 0, userId |-> "", documentId |-> 0,
              outcome |-> "none"]

\* One SSE request.  pc = "closed" is ctx.closed.  The response as the client
\* sees it: http and headers (the text/event-stream headers were flushed),
\* frames (how many frames were written), id, event, stage and percent of the
\* last frame, beat (a heartbeat comment was written after it) and gone (the
\* transport's close event has been emitted).  teardowns counts the runs of
\* cleanup's body (timers cleared, subscription released, response ended).
IdleConn == [pc |-> "idle", jobId |-> 0, job |-> NoJobRow, eventCounter |-> 0,
             event |-> "none", stage |-> "NONE", percent |-> 0, sub |-> FALSE,
             heartbeatTimer |-> FALSE, timeoutTimer |-> FALSE, http |-> 0,
             headers |-> FALSE, frames |-> 0, id |-> 0, beat |-> FALSE,
             gone |-> FALSE, teardowns |-> 0]

IdleObs == [pc |-> "idle", jobId |-> 0, job |-> NoJobRow, count |-> 0,
            status |-> "NONE", progress |-> 0, sub |-> FALSE,
            cancelled |-> FALSE]

\* a local consumer of RedisSubscriberService.subscribeJson: what its next
\* handler received (message numbers, in order) and how many of them its own
\* downstream has not taken yet
IdleConsumer == [state |-> "idle", channel |-> 0, received |-> <<>>,
                 backlog |-> 0]

\* the dedicated subscriber connection as the Redis server has it: channels
\* subscribed, commands sent and not yet processed, messages published so far
\* (number, channel and kind of the last one), UNSUBSCRIBE commands sent
IdleRedis == [active |-> {}, cmds |-> <<>>, published |-> 0]

\* a websocket client that has not connected; `instance` is the gateway process
\* that holds its connection, `rooms` the rooms it joined there, `inbox` the
\* events emitted to it, `sent` the number of events it has sent
NewSocket == [state |-> "new", instance |-> 0, rooms |-> {}, inbox |-> <<>>,
              sent |-> 0]

Init ==
  /\ sockets = [s \in SocketIds |-> NewSocket]
  /\ subjects = <<>>
  /\ redis = IdleRedis
  /\ consumer = [c \in Consumers |-> IdleConsumer]
  /\ docs = <<>>
  /\ jobs = <<>>
  /\ upload = [u \in UploadIds |-> IdleUpload]
  /\ rpc = [c \in CallIds |-> IdleRpc]
  /\ task = [j \in JobIds |-> NoTask]
  /\ lastEvent = [j \in JobIds |-> NoEvent]
  /\ retry = [r \in RetryIds |-> IdleRetry]
  /\ conn = [c \in ConnIds |-> IdleConn]
  /\ obs = [o \in ObsIds |-> IdleObs]
  /\ faults = 0

\* A store write, a channel publish or a dispatch call either succeeds or
\* fails; `faults` counts the failures injected so far (bounded in the
\* specifications).
Outcome(ok) == faults' = IF ok THEN faults ELSE faults + 1

\* background tasks started so far
TasksStarted == Cardinality({j \in JobIds : task[j].pc # "none"})

\* ------------------------------------------------- gRPC client (gateway)

\* DocumentProcessingClient.processDocument: the request leaves the gateway.
SendCall(c, documentId, userId) ==
  [rpc EXCEPT ![c] = [IdleRpc EXCEPT !.wpc = "sent", !.client = "waiting",
                                     !.documentId = documentId,
                                     !.userId = userId]]

\* The worker is unreachable: the call fails and the worker never sees it.
processDocument_unreachable(c) ==
  /\ c <= MaxUploads + MaxRetries
  /\ rpc[c].wpc = "sent"
  /\ rpc[c].client = "waiting"
  /\ rpc' = [rpc EXCEPT ![c].wpc = "lost", ![c].client = "failed"]
  /\ UNCHANGED <<docs, jobs, upload, task, lastEvent, retry, conn, obs>>
  /\ Outcome(FALSE)

\* timeout(GRPC_UNARY_TIMEOUT_MS): the caller gives up; the worker's handler,
\* if it runs, is not interrupted.
processDocument_timeout(c) ==
  /\ c <= MaxUploads + MaxRetries
  /\ rpc[c].client = "waiting"
  /\ rpc[c].wpc \notin {"done", "lost"}
  /\ rpc' = [rpc EXCEPT ![c].client = "failed"]
  /\ UNCHANGED <<docs, jobs, upload, task, lastEvent, retry, conn, obs>>
  /\ Outcome(FALSE)

\* The worker's handler returned or threw: the caller, if still waiting, gets
\* the response or the RPC error.
Respond(c, jobId, path, err) ==
  [rpc EXCEPT ![c].wpc = "done", ![c].jobId = jobId, ![c].path = path,
              ![c].err = err,
              ![c].client = IF rpc[c].client = "waiting"
                            THEN (IF err = "" THEN "ok" ELSE "failed")
                            ELSE rpc[c].client]

\* ------------------------------------------------ DocumentsService.upload

uploadDocument_validate(u, file) ==
  /\ upload[u].pc = "idle"
  /\ upload' = [upload EXCEPT ![u] =
       IF validateFile(file) = 0
       THEN [@ EXCEPT !.pc = "storing"]
       ELSE [@ EXCEPT !.pc = "answered", !.http = validateFile(file),
                      !.body = ExceptionBody]]
  /\ UNCHANGED <<docs, jobs, rpc, task, lastEvent, retry, conn, obs, faults>>

\* variant: a failed storage upload is ignored and the rows are created
uploadDocument_storeIgnored(u, ok) ==
  /\ upload[u].pc = "storing"
  /\ upload' = [upload EXCEPT ![u].pc = "persisting"]
  /\ UNCHANGED <<docs, jobs, rpc, task, lastEvent, retry, conn, obs>>
  /\ Outcome(ok)

\* storageService.uploadFile: the object is stored, or StorageUploadException
uploadDocument_store(u, ok) ==
  /\ upload[u].pc = "storing"
  /\ upload' = [upload EXCEPT ![u] =
       IF ok THEN [@ EXCEPT !.pc = "persisting"]
       ELSE [@ EXCEPT !.pc = "answered", !.http = 502,
                      !.body = ExceptionBody]]
  /\ UNCHANGED <<docs, jobs, rpc, task, lastEvent, retry, conn, obs>>
  /\ Outcome(ok)

\* variant: the two inserts are not in a transaction; the insert of the job
\* fails after the Document was stored
createDocumentWithJob_unwrapped(u, userId, ok) ==
  /\ upload[u].pc = "persisting"
  /\ IF ok
     THEN /\ Len(docs) < MaxUploads
          /\ Len(jobs) < MaxJobs
          /\ docs' = Append(docs, NewDocument(userId))
          /\ jobs' = Append(jobs, NewJob(Len(docs) + 1))
          /\ upload' = [upload EXCEPT ![u].pc = "dispatching",
                                      ![u].documentId = Len(docs) + 1,
                                      ![u].jobId = Len(jobs) + 1]
          /\ rpc' = SendCall(UploadCall(u), Len(docs) + 1, userId)
     ELSE /\ Len(docs) < MaxUploads
          /\ docs' = Append(docs, NewDocument(userId))
          /\ upload' = [upload EXCEPT ![u].pc = "answered", ![u].http = 500,
                 ![u].body = ExceptionBody]
          /\ UNCHANGED <<jobs, rpc>>
  /\ UNCHANGED <<task, lastEvent, retry, conn, obs>>
  /\ Outcome(ok)

\* createDocumentWithJob: one transaction inserts the Document and its job;
\* on commit the dispatch call is issued in the same continuation.
createDocumentWithJob(u, userId, ok) ==
  /\ upload[u].pc = "persisting"
  /\ IF ok
     THEN /\ Len(docs) < MaxUploads
          /\ Len(jobs) < MaxJobs
          /\ docs' = Append(docs, NewDocument(userId))
          /\ jobs' = Append(jobs, NewJob(Len(docs) + 1))
          /\ upload' = [upload EXCEPT ![u].pc = "dispatching",
                                      ![u].documentId = Len(docs) + 1,
                                      ![u].jobId = Len(jobs) + 1]
          /\ rpc' = SendCall(UploadCall(u), Len(docs) + 1, userId)
     ELSE /\ upload' = [upload EXCEPT ![u].pc = "answered", ![u].http = 500,
                 ![u].body = ExceptionBody]
          /\ UNCHANGED <<docs, jobs, rpc>>
  /\ UNCHANGED <<task, lastEvent, retry, conn, obs>>
  /\ Outcome(ok)

\* variant: a failed dispatch propagates as an internal error
uploadDocument_rethrow(u) ==
  /\ upload[u].pc = "dispatching"
  /\ rpc[UploadCall(u)].client \in {"ok", "failed"}
  /\ upload' = [upload EXCEPT ![u] =
       IF rpc[UploadCall(u)].client = "ok"
       THEN [@ EXCEPT !.pc = "answered", !.http = HttpStatus_CREATED,
                      !.body = [fields |-> ResponseDtoFields,
                                jobId |-> upload[u].jobId,
                                documentId |-> upload[u].documentId]]
       ELSE [@ EXCEPT !.pc = "answered", !.http = 500,
                      !.body = ExceptionBody]]
  /\ UNCHANGED <<docs, jobs, rpc, task, lastEvent, retry, conn, obs, faults>>

\* Steps 4-5 of uploadDocument: the dispatch outcome decides between the
\* response DTO (201) and GrpcDispatchException (HttpException, 202).
uploadDocument_respond(u) ==
  /\ upload[u].pc = "dispatching"
  /\ rpc[UploadCall(u)].client \in {"ok", "failed"}
  /\ upload' = [upload EXCEPT ![u] =
       IF rpc[UploadCall(u)].client = "ok"
       THEN [@ EXCEPT !.pc = "answered", !.http = HttpStatus_CREATED,
                      !.body = [fields |-> ResponseDtoFields,
                                jobId |-> upload[u].jobId,
                                documentId |-> upload[u].documentId]]
       ELSE [@ EXCEPT !.pc = "answered", !.http = GrpcDispatchException_status,
                      !.body = ExceptionBody]]
  /\ UNCHANGED <<docs, jobs, rpc, task, lastEvent, retry, conn, obs, faults>>

\* ------------------------------- DocumentProcessingService.processDocument

\* A call made directly on the worker's RPC surface.
processDocument_call(k, documentId, userId) ==
  /\ rpc[DirectCall(k)].wpc \in {"idle", "done", "lost"}
  /\ rpc' = SendCall(DirectCall(k), documentId, userId)
  /\ UNCHANGED <<docs, jobs, upload, task, lastEvent, retry, conn, obs, faults>>

\* variant: the document is looked up by id only
processDocument_findById(c) ==
  /\ rpc[c].wpc = "sent"
  /\ rpc' =
       IF rpc[c].documentId = 0 \/ rpc[c].userId = ""
       THEN Respond(c, 0, "", "invalid_argument")
       ELSE IF ~DocExists(rpc[c].documentId)
       THEN Respond(c, 0, "", "not_found")
       ELSE [rpc EXCEPT ![c].wpc = "findJob"]
  /\ UNCHANGED <<docs, jobs, upload, task, lastEvent, retry, conn, obs, faults>>

\* argument check and documentRepository.findOne({id, ownerId})
processDocument_findDocument(c) ==
  /\ rpc[c].wpc = "sent"
  /\ rpc' =
       IF rpc[c].documentId = 0 \/ rpc[c].userId = ""
       THEN Respond(c, 0, "", "invalid_argument")
       ELSE IF ~(DocExists(rpc[c].documentId)
                 /\ docs[rpc[c].documentId].ownerId = rpc[c].userId)
       THEN Respond(c, 0, "", "not_found")
       ELSE [rpc EXCEPT ![c].wpc = "findJob"]
  /\ UNCHANGED <<docs, jobs, upload, task, lastEvent, retry, conn, obs, faults>>

\* jobRepository.findOne({documentId, status: RUNNING}): without ORDER BY the
\* row returned among several matches is not determined.
processDocument_findRunningJob(c) ==
  /\ rpc[c].wpc = "findJob"
  /\ \/ /\ RunningJobsOf(rpc[c].documentId) = {}
        /\ rpc' = [rpc EXCEPT ![c].wpc = "save"]
     \/ \E j \in RunningJobsOf(rpc[c].documentId) :
          rpc' = Respond(c, j, "existing", "")
  /\ UNCHANGED <<docs, jobs, upload, task, lastEvent, retry, conn, obs, faults>>

\* jobRepository.save(job): a new PENDING row, or the write throws (the
\* store is unavailable, or the document_id foreign key has no parent row)
processDocument_saveJob(c, ok) ==
  /\ rpc[c].wpc = "save"
  /\ IF ok /\ DocExists(rpc[c].documentId)
     THEN /\ Len(jobs) < MaxJobs
          /\ jobs' = Append(jobs, NewJob(rpc[c].documentId))
          /\ rpc' = [rpc EXCEPT ![c].wpc = "update", ![c].jobId = Len(jobs) + 1]
     ELSE /\ rpc' = Respond(c, 0, "", "internal")
          /\ UNCHANGED jobs
  /\ UNCHANGED <<docs, upload, task, lastEvent, retry, conn, obs>>
  /\ Outcome(ok)

\* documentRepository.update(PROCESSING), then startProcessing is fired
\* without await and the response is returned.
processDocument_updateDocument(c, ok) ==
  /\ rpc[c].wpc = "update"
  /\ IF ok
     THEN /\ docs' = IF DocExists(rpc[c].documentId)
                     THEN [docs EXCEPT ![rpc[c].documentId].status =
                             "processing"]
                     ELSE docs
          /\ task' = [task EXCEPT ![rpc[c].jobId] =
                        [NoTask EXCEPT !.pc = "start_w",
                                       !.documentId = rpc[c].documentId]]
          /\ rpc' = Respond(c, rpc[c].jobId, "new", "")
     ELSE /\ rpc' = Respond(c, 0, "", "internal")
          /\ UNCHANGED <<docs, task>>
  /\ UNCHANGED <<jobs, upload, lastEvent, retry, conn, obs>>
  /\ Outcome(ok)

\* ------------------------------------------------------- the Redis channel

StartEvent == [status |-> "RUNNING", progress |-> 0, currentPage |-> 0]

PageEvent(page) ==
  [status |-> "RUNNING", progress |-> PageProgress(page), currentPage |-> page]

CompletionEvent ==
  [status |-> "COMPLETED", progress |-> 100,
   currentPage |-> SIMULATED_PAGE_COUNT]

FailedEvent == [status |-> "FAILED", progress |-> 0, currentPage |-> 0]

IsTerminalEvent(e) == e.status \in {"COMPLETED", "FAILED"}

\* ProgressSseService.cleanup: timers cleared, subscription released,
\* response ended; a second call returns at once.
\* variant: cleanup without the closed guard
cleanup_unguarded(k) ==
  [k EXCEPT !.pc = "closed", !.heartbeatTimer = FALSE,
            !.timeoutTimer = FALSE, !.sub = FALSE, !.teardowns = @ + 1]

\* ProgressSseService.cleanup
cleanup(k) ==
  IF k.pc = "closed" THEN k
  ELSE [k EXCEPT !.pc = "closed", !.heartbeatTimer = FALSE,
                 !.timeoutTimer = FALSE, !.sub = FALSE, !.teardowns = @ + 1]

\* ProgressSseService.writeSseFrame: nothing is written once closed
writeSseFrame(k, eventName, stage, percent) ==
  IF k.pc = "closed" THEN k
  ELSE [k EXCEPT !.eventCounter = @ + 1, !.id = k.eventCounter + 1,
                 !.frames = @ + 1, !.event = eventName,
                 !.stage = stage, !.percent = percent, !.beat = FALSE]

\* variant: the heartbeat takes an event id
writeHeartbeat_counted(k) ==
  IF k.pc = "closed" THEN k
  ELSE [k EXCEPT !.beat = TRUE, !.eventCounter = @ + 1]

\* ProgressSseService.writeHeartbeat: a comment line, no id, no event
writeHeartbeat(k) ==
  IF k.pc = "closed" THEN k ELSE [k EXCEPT !.beat = TRUE]

\* variant: the subscriber stays connected after a terminal event
ConnOnEvent_keepOpen(k, e) ==
  writeSseFrame(k, "progress", e.status, e.progress)

\* ProgressSseService subscriber `next`: one progress frame, cleanup on a
\* terminal event.
ConnOnEvent(k, e) ==
  IF IsTerminalEvent(e)
  THEN cleanup(writeSseFrame(k, "progress", e.status, e.progress))
  ELSE writeSseFrame(k, "progress", e.status, e.progress)

\* getProgress subscriber `next`: forward the update, complete on terminal.
ObsOnEvent(o, e) ==
  [o EXCEPT !.count = @ + 1, !.status = e.status, !.progress = e.progress,
            !.pc = IF IsTerminalEvent(e) THEN "completed" ELSE @,
            !.sub = IF IsTerminalEvent(e) THEN FALSE ELSE @]

\* publishProgressEvent(channel, event): the message reaches every subscriber
\* attached to doc:{jobId}:progress; a publish that throws is swallowed.
Publish(j, e, delivered) ==
  IF delivered
  THEN /\ lastEvent' = [lastEvent EXCEPT ![j] = e]
       /\ conn' = [c \in ConnIds |->
                     IF conn[c].sub /\ conn[c].jobId = j
                     THEN ConnOnEvent(conn[c], e) ELSE conn[c]]
       /\ obs' = [o \in ObsIds |->
                    IF obs[o].sub /\ obs[o].jobId = j
                    THEN ObsOnEvent(obs[o], e) ELSE obs[o]]
  ELSE UNCHANGED <<lastEvent, conn, obs>>

\* jobRepository.update(jobId, patch): an UPDATE of a missing row changes
\* nothing and does not throw.
UpdateJob(j, patch) ==
  IF JobExists(j) THEN [jobs EXCEPT ![j] = patch @@ @] ELSE jobs

\* ----------------------------- DocumentProcessingService.startProcessing

startProcessing_running(j, ok) ==
  /\ task[j].pc = "start_w"
  /\ IF ok
     THEN /\ jobs' = UpdateJob(j, [status |-> "running", progress |-> 0,
                                   startedAt |-> TRUE])
          /\ task' = [task EXCEPT ![j].pc = "start_p"]
     ELSE /\ task' = [task EXCEPT ![j].pc = "fail_w"]
          /\ UNCHANGED jobs
  /\ UNCHANGED <<docs, upload, rpc, lastEvent, retry, conn, obs>>
  /\ Outcome(ok)

startProcessing_publishStart(j, delivered) ==
  /\ task[j].pc = "start_p"
  /\ Publish(j, StartEvent, delivered)
  /\ task' = [task EXCEPT ![j].pc = "page_w", ![j].page = 1]
  /\ UNCHANGED <<docs, jobs, upload, rpc, retry>>
  /\ Outcome(delivered)

\* variant: the page's progress is not persisted before its event
startProcessing_publishFirst(j, ok) ==
  /\ task[j].pc = "page_w"
  /\ task' = [task EXCEPT ![j].pc = IF ok THEN "page_p" ELSE "fail_w"]
  /\ UNCHANGED <<docs, jobs, upload, rpc, lastEvent, retry, conn, obs>>
  /\ Outcome(ok)

\* jobRepository.update(jobId, { progress }) for the current page
startProcessing_persistPage(j, ok) ==
  /\ task[j].pc = "page_w"
  /\ IF ok
     THEN /\ jobs' = UpdateJob(j, [progress |-> PageProgress(task[j].page)])
          /\ task' = [task EXCEPT ![j].pc = "page_p"]
     ELSE /\ task' = [task EXCEPT ![j].pc = "fail_w"]
          /\ UNCHANGED jobs
  /\ UNCHANGED <<docs, upload, rpc, lastEvent, retry, conn, obs>>
  /\ Outcome(ok)

\* variant: a failed publish of a page event is thrown into the catch block
startProcessing_publishPageThrows(j, delivered) ==
  /\ task[j].pc = "page_p"
  /\ Publish(j, PageEvent(task[j].page), delivered)
  /\ task' = [task EXCEPT ![j] =
       IF ~delivered
       THEN [@ EXCEPT !.pc = "fail_w"]
       ELSE IF task[j].page < SIMULATED_PAGE_COUNT
       THEN [@ EXCEPT !.pc = "page_w", !.page = @ + 1]
       ELSE [@ EXCEPT !.pc = "done_wj"]]
  /\ UNCHANGED <<docs, jobs, upload, rpc, retry>>
  /\ Outcome(delivered)

startProcessing_publishPage(j, delivered) ==
  /\ task[j].pc = "page_p"
  /\ Publish(j, PageEvent(task[j].page), delivered)
  /\ task' = [task EXCEPT ![j] =
       IF task[j].page < SIMULATED_PAGE_COUNT
       THEN [@ EXCEPT !.pc = "page_w", !.page = @ + 1]
       ELSE [@ EXCEPT !.pc = "done_wj"]]
  /\ UNCHANGED <<docs, jobs, upload, rpc, retry>>
  /\ Outcome(delivered)

startProcessing_completeJob(j, ok) ==
  /\ task[j].pc = "done_wj"
  /\ IF ok
     THEN /\ jobs' = UpdateJob(j, [status |-> "completed", progress |-> 100,
                                   completedAt |-> TRUE])
          /\ task' = [task EXCEPT ![j].pc = "done_wd"]
     ELSE /\ task' = [task EXCEPT ![j].pc = "fail_w"]
          /\ UNCHANGED jobs
  /\ UNCHANGED <<docs, upload, rpc, lastEvent, retry, conn, obs>>
  /\ Outcome(ok)

startProcessing_completeDocument(j, ok) ==
  /\ task[j].pc = "done_wd"
  /\ IF ok
     THEN /\ docs' = IF DocExists(task[j].documentId)
                     THEN [docs EXCEPT ![task[j].documentId] =
                             [@ EXCEPT !.status = "completed",
                                       !.pageCount = SIMULATED_PAGE_COUNT]]
                     ELSE docs
          /\ task' = [task EXCEPT ![j].pc = "done_p"]
     ELSE /\ task' = [task EXCEPT ![j].pc = "fail_w"]
          /\ UNCHANGED docs
  /\ UNCHANGED <<jobs, upload, rpc, lastEvent, retry, conn, obs>>
  /\ Outcome(ok)

startProcessing_publishCompletion(j, delivered) ==
  /\ task[j].pc = "done_p"
  /\ Publish(j, CompletionEvent, delivered)
  /\ task' = [task EXCEPT ![j].pc = "end"]
  /\ UNCHANGED <<docs, jobs, upload, rpc, retry>>
  /\ Outcome(delivered)

\* variant: a failure of the FAILED write leaves the catch block
startProcessing_persistFailureStrict(j, ok) ==
  /\ task[j].pc = "fail_w"
  /\ IF ok
     THEN /\ jobs' = UpdateJob(j, [status |-> "failed", errorMessage |-> TRUE,
                                   completedAt |-> TRUE])
          /\ task' = [task EXCEPT ![j].pc = "fail_p", ![j].failPersist = "ok"]
     ELSE /\ task' = [task EXCEPT ![j].pc = "rejected",
                                  ![j].failPersist = "error"]
          /\ UNCHANGED jobs
  /\ UNCHANGED <<docs, upload, rpc, lastEvent, retry, conn, obs, faults>>

\* catch block: persist FAILED; a failure of this write is logged and absorbed.
\* It belongs to the outage that failed the task and is not counted again.
startProcessing_persistFailure(j, ok) ==
  /\ task[j].pc = "fail_w"
  /\ IF ok
     THEN /\ jobs' = UpdateJob(j, [status |-> "failed", errorMessage |-> TRUE,
                                   completedAt |-> TRUE])
          /\ task' = [task EXCEPT ![j].pc = "fail_p", ![j].failPersist = "ok"]
     ELSE /\ task' = [task EXCEPT ![j].pc = "fail_p",
                                  ![j].failPersist = "error"]
          /\ UNCHANGED jobs
  /\ UNCHANGED <<docs, upload, rpc, lastEvent, retry, conn, obs, faults>>

startProcessing_publishFailure(j, delivered) ==
  /\ task[j].pc = "fail_p"
  /\ Publish(j, FailedEvent, delivered)
  /\ task' = [task EXCEPT ![j].pc = "end"]
  /\ UNCHANGED <<docs, jobs, upload, rpc, retry>>
  /\ Outcome(delivered)

\* ------------------------------------ GraphqlApiService.retryProcessing

\* findProcessingJobById (job, then parent document and owner) and the
\* FAILED check
retryProcessing_find(r, jobId, userId) ==
  /\ retry[r].pc = "idle"
  /\ retry' = [retry EXCEPT ![r] =
       IF ~JobExists(jobId)
       THEN [IdleRetry EXCEPT !.outcome = "job_not_found"]
       ELSE IF ~(DocExists(jobs[jobId].documentId)
                 /\ docs[jobs[jobId].documentId].ownerId = userId)
       THEN [IdleRetry EXCEPT !.outcome = "forbidden"]
       ELSE IF jobs[jobId].status # "failed"
       THEN [IdleRetry EXCEPT !.outcome = "retry_not_allowed"]
       ELSE [IdleRetry EXCEPT !.pc = "txn", !.jobId = jobId,
                              !.userId = userId,
                              !.documentId = jobs[jobId].documentId]]
  /\ UNCHANGED <<docs, jobs, upload, rpc, task, lastEvent, conn, obs, faults>>

\* variant: the reset leaves completedAt as the failed run stored it
retryProcessing_keepCompletedAt(r, ok) ==
  /\ retry[r].pc = "txn"
  /\ IF ok /\ JobExists(retry[r].jobId)
     THEN /\ jobs' = UpdateJob(retry[r].jobId,
                               [status |-> "pending", progress |-> 0,
                                errorMessage |-> FALSE, startedAt |-> FALSE])
          /\ docs' = IF DocExists(retry[r].documentId)
                     THEN [docs EXCEPT ![retry[r].documentId].status =
                             "uploaded"]
                     ELSE docs
          /\ retry' = [retry EXCEPT ![r].pc = "findDoc"]
     ELSE /\ retry' = [retry EXCEPT ![r] =
                         [IdleRetry EXCEPT !.outcome = "internal"]]
          /\ UNCHANGED <<docs, jobs>>
  /\ Outcome(ok)
  /\ UNCHANGED <<upload, rpc, task, lastEvent, conn, obs>>

\* the transaction: the job entity is saved reset to PENDING and the parent
\* document is set back to UPLOADED; saving the entity of a job removed with
\* its document violates the document_id foreign key and rolls back
retryProcessing_reset(r, ok) ==
  /\ retry[r].pc = "txn"
  /\ IF ok /\ JobExists(retry[r].jobId)
     THEN /\ jobs' = UpdateJob(retry[r].jobId, NewJob(retry[r].documentId))
          /\ docs' = IF DocExists(retry[r].documentId)
                     THEN [docs EXCEPT ![retry[r].documentId].status =
                             "uploaded"]
                     ELSE docs
          /\ retry' = [retry EXCEPT ![r].pc = "findDoc"]
     ELSE /\ retry' = [retry EXCEPT ![r] =
                         [IdleRetry EXCEPT !.outcome = "internal"]]
          /\ UNCHANGED <<docs, jobs>>
  /\ Outcome(ok)
  /\ UNCHANGED <<upload, rpc, task, lastEvent, conn, obs>>

\* step 4: the document is read again and the worker is called
retryProcessing_dispatch(r) ==
  /\ retry[r].pc = "findDoc"
  /\ IF DocExists(retry[r].documentId)
     THEN /\ rpc' = SendCall(RetryCall(r), retry[r].documentId,
                             retry[r].userId)
          /\ retry' = [retry EXCEPT ![r].pc = "dispatching"]
     ELSE /\ retry' = [retry EXCEPT ![r] =
                         [IdleRetry EXCEPT !.outcome = "returned"]]
          /\ UNCHANGED rpc
  /\ UNCHANGED <<docs, jobs, upload, task, lastEvent, conn, obs, faults>>

\* the dispatch outcome is logged either way and updatedJob is returned
retryProcessing_return(r) ==
  /\ retry[r].pc = "dispatching"
  /\ rpc[RetryCall(r)].client \in {"ok", "failed"}
  /\ retry' = [retry EXCEPT ![r] = [IdleRetry EXCEPT !.outcome = "returned"]]
  /\ UNCHANGED <<docs, jobs, upload, rpc, task, lastEvent, conn, obs, faults>>

\* ------------------------------------- GraphqlApiService.deleteDocument

\* the rows left after document d is removed: ON DELETE CASCADE removes its
\* processing jobs with it
RemoveDocument(d) == [docs EXCEPT ![d] = NoDocumentRow]

CascadeJobs(d) ==
  [j \in 1..Len(jobs) |->
     IF jobs[j].documentId = d THEN NoJobRow ELSE jobs[j]]

\* variant: the document is looked up by id only
deleteDocument_anyUser(documentId, userId) ==
  /\ IF DocExists(documentId)
     THEN /\ docs' = RemoveDocument(documentId)
          /\ jobs' = CascadeJobs(documentId)
     ELSE UNCHANGED <<docs, jobs>>
  /\ UNCHANGED <<upload, rpc, task, lastEvent, retry, conn, obs, faults>>

\* findDocumentById (not found, or owned by someone else: the mutation
\* throws) and documentRepository.remove(document)
deleteDocument(documentId, userId) ==
  /\ IF DocExists(documentId) /\ docs[documentId].ownerId = userId
     THEN /\ docs' = RemoveDocument(documentId)
          /\ jobs' = CascadeJobs(documentId)
     ELSE UNCHANGED <<docs, jobs>>
  /\ UNCHANGED <<upload, rpc, task, lastEvent, retry, conn, obs, faults>>

\* -------------------------------------- ProgressSseService.streamProgress

\* GET /documents/:jobId/progress: the controller sets the SSE headers and
\* calls res.flushHeaders() (status 200 goes out with them), then the service
\* issues findJob
streamProgress_open(c, jobId) ==
  /\ conn[c].pc = "idle"
  /\ conn' = [conn EXCEPT ![c] = [IdleConn EXCEPT !.pc = "finding",
                                                  !.jobId = jobId,
                                                  !.http = 200,
                                                  !.headers = TRUE]]
  /\ UNCHANGED <<docs, jobs, upload, rpc, task, lastEvent, retry, obs, faults>>

\* the findJob query reads the row
streamProgress_findJob(c) ==
  /\ conn[c].pc = "finding"
  /\ conn' = [conn EXCEPT ![c].pc = "found",
                          ![c].job = IF JobExists(conn[c].jobId)
                                     THEN jobs[conn[c].jobId] ELSE NoJobRow]
  /\ UNCHANGED <<docs, jobs, upload, rpc, task, lastEvent, retry, obs, faults>>

\* variant: the snapshot's status is not looked at, every found job is
\* subscribed to
streamProgress_subscribeAlways(c) ==
  /\ conn[c].pc = "found"
  /\ conn' = [conn EXCEPT ![c] =
       IF conn[c].job.status = "none"
       THEN [@ EXCEPT !.pc = "rejected"]
       ELSE [writeSseFrame([@ EXCEPT !.pc = "open", !.job = NoJobRow],
                           "progress",
                           toUpperCase(conn[c].job.status),
                           conn[c].job.progress)
               EXCEPT !.heartbeatTimer = TRUE, !.timeoutTimer = TRUE,
                      !.sub = TRUE]]
  /\ UNCHANGED <<docs, jobs, upload, rpc, task, lastEvent, retry, obs, faults>>

\* the continuation after findJob.  Not found: res.status(404).json(...) on a
\* response whose headers are out already, the status line on the wire stays
\* as flushed.  Found: retry directive and snapshot frame, then either
\* res.end() on a terminal snapshot or timers, subscription and the close
\* listener.
streamProgress_snapshot(c) ==
  /\ conn[c].pc = "found"
  /\ conn' = [conn EXCEPT ![c] =
       IF conn[c].job.status = "none"
       THEN [@ EXCEPT !.pc = "rejected"]
       ELSE LET k == writeSseFrame([@ EXCEPT !.pc = "open", !.job = NoJobRow],
                                   "progress",
                                   toUpperCase(conn[c].job.status),
                                   conn[c].job.progress)
            IN IF conn[c].job.status \in {"completed", "failed"}
               THEN [k EXCEPT !.pc = "ended"]
               ELSE [k EXCEPT !.heartbeatTimer = TRUE, !.timeoutTimer = TRUE,
                              !.sub = TRUE]]
  /\ UNCHANGED <<docs, jobs, upload, rpc, task, lastEvent, retry, obs, faults>>

\* the heartbeat interval fires
streamProgress_heartbeat(c) ==
  /\ conn[c].heartbeatTimer
  /\ conn' = [conn EXCEPT ![c] = writeHeartbeat(@)]
  /\ UNCHANGED <<docs, jobs, upload, rpc, task, lastEvent, retry, obs, faults>>

\* variant: the lifetime timer only writes its frame
streamProgress_timeoutFrameOnly(c) ==
  /\ conn[c].timeoutTimer
  /\ conn[c].event # "timeout"
  /\ conn' = [conn EXCEPT ![c] = writeSseFrame(@, "timeout", "NONE", 0)]
  /\ UNCHANGED <<docs, jobs, upload, rpc, task, lastEvent, retry, obs, faults>>

\* the lifetime timer fires: one timeout frame, then cleanup
streamProgress_timeout(c) ==
  /\ conn[c].timeoutTimer
  /\ conn' = [conn EXCEPT ![c] = cleanup(writeSseFrame(@, "timeout", "NONE", 0))]
  /\ UNCHANGED <<docs, jobs, upload, rpc, task, lastEvent, retry, obs, faults>>

\* variant: the error handler writes its frame and leaves the stream open
streamProgress_errorFrameOnly(c) ==
  /\ conn[c].sub
  /\ conn' = [conn EXCEPT ![c] = writeSseFrame(@, "error", "FAILED", 0)]
  /\ UNCHANGED <<docs, jobs, upload, rpc, task, lastEvent, retry, obs>>
  /\ Outcome(FALSE)

\* the subscription's error handler (client.subscribe rejected): one error
\* frame, then cleanup
streamProgress_error(c) ==
  /\ conn[c].sub
  /\ conn' = [conn EXCEPT ![c] = cleanup(writeSseFrame(@, "error", "FAILED", 0))]
  /\ UNCHANGED <<docs, jobs, upload, rpc, task, lastEvent, retry, obs>>
  /\ Outcome(FALSE)

\* the subscription's complete handler (the subscriber service shuts down)
streamProgress_complete(c) ==
  /\ conn[c].sub
  /\ conn' = [conn EXCEPT ![c] = cleanup(@)]
  /\ UNCHANGED <<docs, jobs, upload, rpc, task, lastEvent, retry, obs, faults>>

\* The transport emits 'close' (the client went away, or the response was
\* ended).  The listener of res.on('close') exists only once streamProgress
\* has run to its last statement; an event emitted before that is handled by
\* nobody.
streamProgress_close(c) ==
  /\ conn[c].pc # "idle"
  /\ ~conn[c].gone
  /\ conn' = [conn EXCEPT ![c] =
       IF conn[c].pc \in {"open", "closed"}
       THEN [cleanup(@) EXCEPT !.gone = TRUE]
       ELSE [@ EXCEPT !.gone = TRUE]]
  /\ UNCHANGED <<docs, jobs, upload, rpc, task, lastEvent, retry, obs, faults>>

\* ----------------------------- DocumentProcessingService.getProgress

getProgress_open(o, jobId) ==
  /\ obs[o].pc = "idle"
  /\ obs' = [obs EXCEPT ![o] = [IdleObs EXCEPT !.pc = "finding",
                                               !.jobId = jobId]]
  /\ UNCHANGED <<docs, jobs, upload, rpc, task, lastEvent, retry, conn, faults>>

\* jobRepository.findOne({ id: jobId }) reads the row
getProgress_findOne(o) ==
  /\ obs[o].pc = "finding"
  /\ obs' = [obs EXCEPT ![o].pc = "found",
                        ![o].job = IF JobExists(obs[o].jobId)
                                   THEN jobs[obs[o].jobId] ELSE NoJobRow]
  /\ UNCHANGED <<docs, jobs, upload, rpc, task, lastEvent, retry, conn, faults>>

\* The caller cancels the stream: the controller's Observable is unsubscribed.
\* Its subscribe function returned no teardown, so the inner subscription to
\* the service's stream, and the channel subscription behind it, stay as they
\* are.
getProgress_cancel(o) ==
  /\ obs[o].pc \in {"finding", "found", "streaming"}
  /\ ~obs[o].cancelled
  /\ obs' = [obs EXCEPT ![o].cancelled = TRUE]
  /\ UNCHANGED <<docs, jobs, upload, rpc, task, lastEvent, retry, conn, faults>>

\* variant: the channel is subscribed before the row's status is looked at
getProgress_thenSubscribeFirst(o) ==
  /\ obs[o].pc = "found"
  /\ obs' = [obs EXCEPT ![o] =
       IF obs[o].job.status = "none"
       THEN [@ EXCEPT !.pc = "errored"]
       ELSE IF obs[o].job.status \in {"completed", "failed"}
       THEN [@ EXCEPT !.pc = "completed", !.count = 1,
                      !.status = obs[o].job.status,
                      !.progress = obs[o].job.progress,
                      !.sub = TRUE]
       ELSE [@ EXCEPT !.pc = "streaming", !.sub = TRUE]]
  /\ UNCHANGED <<docs, jobs, upload, rpc, task, lastEvent, retry, conn, faults>>

\* the .then continuation: not_found, the synthetic final update of a terminal
\* job, or the subscription to the job's channel
getProgress_then(o) ==
  /\ obs[o].pc = "found"
  /\ obs' = [obs EXCEPT ![o] =
       IF obs[o].job.status = "none"
       THEN [@ EXCEPT !.pc = "errored"]
       ELSE IF obs[o].job.status \in {"completed", "failed"}
       THEN [@ EXCEPT !.pc = "completed", !.count = 1,
                      !.status = obs[o].job.status,
                      !.progress = obs[o].job.progress]
       ELSE [@ EXCEPT !.pc = "streaming", !.sub = TRUE]]
  /\ UNCHANGED <<docs, jobs, upload, rpc, task, lastEvent, retry, conn, faults>>

\* ------------------------------------------------- RedisSubscriberService

\* this.subjects.get(channel), the empty set when the key is absent
SubjectsOf(S, ch) == IF ch \in DOMAIN S THEN S[ch] ELSE {}

\* variant: the upstream UNSUBSCRIBE goes out whenever a consumer leaves
unsubscribeSubject_eager(st, ch, c) ==
  IF ch \notin DOMAIN st.subjects THEN st
  ELSE [subjects |-> [x \in DOMAIN st.subjects \ {ch} |-> st.subjects[x]],
        redis |-> [st.redis EXCEPT
                     !.cmds = Append(@, [op |-> "UNSUBSCRIBE",
                                         channel |-> ch, by |-> 0])]]

\* unsubscribeSubject(channel, subject) on the pair st of registry and
\* connection: the subject is removed from its channel's set; an emptied set
\* is dropped from the map and UNSUBSCRIBE is sent
unsubscribeSubject(st, ch, c) ==
  IF ch \notin DOMAIN st.subjects THEN st
  ELSE IF st.subjects[ch] \ {c} = {}
  THEN [subjects |-> [x \in DOMAIN st.subjects \ {ch} |-> st.subjects[x]],
        redis |-> [st.redis EXCEPT
                     !.cmds = Append(@, [op |-> "UNSUBSCRIBE",
                                         channel |-> ch, by |-> 0])]]
  ELSE [st EXCEPT !.subjects[ch] = @ \ {c}]

\* the teardowns of the consumers in L, one after the other
RECURSIVE Teardowns(_, _, _)
Teardowns(st, ch, L) ==
  IF L = {} THEN st
  ELSE LET c == CHOOSE x \in L : TRUE
       IN Teardowns(unsubscribeSubject(st, ch, c), ch, L \ {c})

\* subscribeJson(channel).subscribe(...) by consumer c: its Subject is
\* registered at once, SUBSCRIBE is sent and not awaited
subscribe(c, ch) ==
  /\ consumer[c].state = "idle"
  /\ subjects' = IF ch \in DOMAIN subjects
                 THEN [subjects EXCEPT ![ch] = @ \cup {c}]
                 ELSE [x \in DOMAIN subjects \cup {ch} |->
                         IF x = ch THEN {c} ELSE subjects[x]]
  /\ redis' = [redis EXCEPT !.cmds = Append(@, [op |-> "SUBSCRIBE",
                                                channel |-> ch, by |-> c])]
  /\ consumer' = [consumer EXCEPT ![c].state = "attached", ![c].channel = ch]
  /\ UNCHANGED pipeline

\* the consumer unsubscribes (its teardown function runs)
unsubscribe(c) ==
  /\ consumer[c].state = "attached"
  /\ LET st == unsubscribeSubject([subjects |-> subjects, redis |-> redis],
                                  consumer[c].channel, c)
     IN /\ subjects' = st.subjects
        /\ redis' = st.redis
  /\ consumer' = [consumer EXCEPT ![c].state = "left"]
  /\ UNCHANGED pipeline

\* The server processes the oldest command of the connection.  A rejected
\* SUBSCRIBE errors the Subject of the consumer that sent it (which tears that
\* consumer down, unless it is gone already); a rejected UNSUBSCRIBE is only
\* logged.
client_reply(ok) ==
  /\ redis.cmds # <<>>
  /\ LET cmd == Head(redis.cmds)
         rest == [redis EXCEPT !.cmds = Tail(@)]
     IN IF cmd.op = "SUBSCRIBE" /\ ok
        THEN /\ redis' = [rest EXCEPT !.active = @ \cup {cmd.channel}]
             /\ UNCHANGED <<subjects, consumer>>
        ELSE IF cmd.op = "SUBSCRIBE"
        THEN IF consumer[cmd.by].state = "attached"
             THEN LET st == unsubscribeSubject(
                              [subjects |-> subjects, redis |-> rest],
                              cmd.channel, cmd.by)
                  IN /\ subjects' = st.subjects
                     /\ redis' = st.redis
                     /\ consumer' = [consumer EXCEPT
                                       ![cmd.by].state = "errored"]
             ELSE /\ redis' = rest
                  /\ UNCHANGED <<subjects, consumer>>
        ELSE /\ redis' = IF ok
                         THEN [rest EXCEPT !.active = @ \ {cmd.channel}]
                         ELSE rest
             /\ UNCHANGED <<subjects, consumer>>
  /\ UNCHANGED pipeline

\* client.on('message'): subject.next(message) for every Subject of the
\* channel; subscribeJson parses the message and skips a malformed one.  The
\* consumers in L unsubscribe inside their next handler.
fanout(ch, id, kind, L) ==
  [c \in Consumers |->
     IF c \in SubjectsOf(subjects, ch) /\ kind = "json"
     THEN [consumer[c] EXCEPT !.received = Append(@, id),
                              !.backlog = @ + 1,
                              !.state = IF c \in L THEN "left" ELSE @]
     ELSE consumer[c]]

\* PUBLISH on a channel by any Redis client: the server forwards the message
\* to the connection when the channel is subscribed on it, otherwise the
\* message is gone
publish(ch, kind, L) ==
  /\ redis.published < MaxMessages
  /\ L \subseteq (IF ch \in redis.active /\ kind = "json"
                   THEN SubjectsOf(subjects, ch) ELSE {})
  /\ LET id == redis.published + 1
         sent == [redis EXCEPT !.published = id]
     IN IF ch \in redis.active
        THEN LET st == Teardowns([subjects |-> subjects, redis |-> sent],
                                 ch, L)
             IN /\ consumer' = fanout(ch, id, kind, L)
                /\ subjects' = st.subjects
                /\ redis' = st.redis
        ELSE /\ redis' = sent
             /\ UNCHANGED <<subjects, consumer>>
  /\ UNCHANGED pipeline

\* the consumer's downstream takes the oldest message it has not taken yet
drain(c) ==
  /\ consumer[c].backlog > 0
  /\ consumer' = [consumer EXCEPT ![c].backlog = @ - 1]
  /\ UNCHANGED <<subjects, redis>>
  /\ UNCHANGED pipeline

\* ------------------------------------------------------ AnnotationsGateway

\* documentId as sent by a client: a document, or 0 for a missing or empty one
JoinDocumentDtos == [documentId : Rooms \cup {0}]
CursorMoveDtos == [documentId : Rooms \cup {0}, x : {100}, y : {200}]
AddAnnotationDtos == [documentId : Rooms \cup {0}, content : {"", "note"}]

\* ValidationPipe on the DTO classes: @IsString() @IsNotEmpty() documentId
\* and content
IsDocumentId(v) == v # 0
IsNotEmpty(v) == v # ""

\* variant: server.to(room).emit, which does not leave out the sender
broadcast_toRoom(s, room, m) ==
  [t \in SocketIds |->
     IF /\ sockets[t].state = "connected"
        /\ sockets[t].instance = sockets[s].instance
        /\ room \in sockets[t].rooms
     THEN [sockets[t] EXCEPT !.inbox = Append(@, m)]
     ELSE sockets[t]]

\* client.broadcast.to(room).emit(...) with the adapter the server has: the
\* in-memory adapter reaches the sockets of its own process that are in the
\* room, except the sender (bootstrap installs no other adapter)
broadcast(s, room, m) ==
  [t \in SocketIds |->
     IF /\ t # s
        /\ sockets[t].state = "connected"
        /\ sockets[t].instance = sockets[s].instance
        /\ room \in sockets[t].rooms
     THEN [sockets[t] EXCEPT !.inbox = Append(@, m)]
     ELSE sockets[t]]

\* a client connects to the namespace through gateway process i
handleConnection(s, i) ==
  /\ sockets[s].state = "new"
  /\ sockets' = [sockets EXCEPT ![s].state = "connected", ![s].instance = i]
  /\ UNCHANGED <<pipeline, registry>>

\* the connection ends: Socket.IO removes the socket from its rooms
handleDisconnect(s) ==
  /\ sockets[s].state = "connected"
  /\ sockets' = [sockets EXCEPT ![s].state = "gone", ![s].rooms = {}]
  /\ UNCHANGED <<pipeline, registry>>

\* 'join-document'
handleJoinDocument(s, dto) ==
  /\ sockets[s].state = "connected"
  /\ sockets' = IF IsDocumentId(dto.documentId)
                THEN [sockets EXCEPT ![s].rooms = @ \cup {dto.documentId}]
                ELSE sockets
  /\ UNCHANGED <<pipeline, registry>>

\* 'cursor-move'
handleCursorMove(s, dto) ==
  /\ sockets[s].state = "connected"
  /\ sockets' =
       IF IsDocumentId(dto.documentId)
       THEN [broadcast(s, dto.documentId,
                       [event |-> "cursor-changed", clientId |-> s,
                        room |-> dto.documentId, x |-> dto.x, y |-> dto.y,
                        content |-> ""])
               EXCEPT ![s].sent = @ + 1]
       ELSE [sockets EXCEPT ![s].sent = @ + 1]
  /\ UNCHANGED <<pipeline, registry>>

\* 'add-annotation'
handleAddAnnotation(s, dto) ==
  /\ sockets[s].state = "connected"
  /\ sockets' =
       IF IsDocumentId(dto.documentId) /\ IsNotEmpty(dto.content)
       THEN [broadcast(s, dto.documentId,
                       [event |-> "annotation-added", clientId |-> s,
                        room |-> dto.documentId, x |-> 0, y |-> 0,
                        content |-> dto.content])
               EXCEPT ![s].sent = @ + 1]
       ELSE [sockets EXCEPT ![s].sent = @ + 1]
  /\ UNCHANGED <<pipeline, registry>>

\* --------------------------------------------------------- specifications

\* outcomes a write, publish or call may have under the budget of failures
Outcomes == IF faults < MaxFaults THEN BOOLEAN ELSE {TRUE}

Ingest ==
  \/ \E u \in UploadIds, f \in Files : uploadDocument_validate(u, f)
  \/ \E u \in UploadIds, ok \in Outcomes : uploadDocument_store(u, ok)
  \/ \E u \in UploadIds, usr \in UploadUsers, ok \in Outcomes :
       createDocumentWithJob(u, usr, ok)
  \/ \E u \in UploadIds : uploadDocument_respond(u)
  \/ \E c \in CallIds : faults < MaxFaults /\ processDocument_unreachable(c)
  \/ \E c \in CallIds : faults < MaxFaults /\ processDocument_timeout(c)

\* Scenario of the stream and retry specifications: one document, uploaded by
\* the first request; the other request slots stay unused.
SoloIngest ==
  /\ Ingest
  /\ \A u \in UploadIds : upload'[u] # IdleUpload => \A v \in UploadIds : v >= u

Worker(maxTasks) ==
  \/ \E c \in CallIds : processDocument_findDocument(c)
  \/ \E c \in CallIds : processDocument_findRunningJob(c)
  \/ \E c \in CallIds, ok \in Outcomes : processDocument_saveJob(c, ok)
  \/ \E c \in CallIds, ok \in Outcomes :
       /\ ok => TasksStarted < maxTasks
       /\ processDocument_updateDocument(c, ok)
  \/ \E j \in JobIds, ok \in Outcomes : startProcessing_running(j, ok)
  \/ \E j \in JobIds, ok \in Outcomes : startProcessing_publishStart(j, ok)
  \/ \E j \in JobIds, ok \in Outcomes : startProcessing_persistPage(j, ok)
  \/ \E j \in JobIds, ok \in Outcomes : startProcessing_publishPage(j, ok)
  \/ \E j \in JobIds, ok \in Outcomes : startProcessing_completeJob(j, ok)
  \/ \E j \in JobIds, ok \in Outcomes : startProcessing_completeDocument(j, ok)
  \/ \E j \in JobIds, ok \in Outcomes : startProcessing_publishCompletion(j, ok)
  \/ \E j \in JobIds, ok \in BOOLEAN : startProcessing_persistFailure(j, ok)
  \/ \E j \in JobIds, ok \in Outcomes : startProcessing_publishFailure(j, ok)

DirectCalls ==
  \E k \in DirectIds, d \in DocIds, usr \in Users :
    processDocument_call(k, d, usr)

Retries ==
  \/ \E r \in RetryIds, j \in JobIds, usr \in UploadUsers :
       retryProcessing_find(r, j, usr)
  \/ \E r \in RetryIds, ok \in Outcomes :
       retryProcessing_reset(r, ok)
  \/ \E r \in RetryIds : retryProcessing_dispatch(r)
  \/ \E r \in RetryIds : retryProcessing_return(r)

SseStreams ==
  \/ \E c \in ConnIds, j \in JobIds : streamProgress_open(c, j)
  \/ \E c \in ConnIds : streamProgress_findJob(c)
  \/ \E c \in ConnIds : streamProgress_snapshot(c)
  \/ \E c \in ConnIds : streamProgress_heartbeat(c)
  \/ \E c \in ConnIds : streamProgress_timeout(c)
  \/ \E c \in ConnIds : faults < MaxFaults /\ streamProgress_error(c)
  \/ \E c \in ConnIds : streamProgress_complete(c)
  \/ \E c \in ConnIds : streamProgress_close(c)

GrpcStreams ==
  \/ \E o \in ObsIds, j \in JobIds : getProgress_open(o, j)
  \/ \E o \in ObsIds : getProgress_findOne(o)
  \/ \E o \in ObsIds : getProgress_then(o)
  \/ \E o \in ObsIds : getProgress_cancel(o)

\* One upload: gateway ingest, the worker RPC and its background task.
Next ==
  /\ Ingest \/ Worker(MaxTasks)
  /\ UNCHANGED <<registry, sockets>>

Spec == Init /\ [][Next]_vars

\* the steps of the background task of job j
Task(j) ==
  \/ \E ok \in Outcomes : startProcessing_running(j, ok)
  \/ \E ok \in Outcomes : startProcessing_publishStart(j, ok)
  \/ \E ok \in Outcomes : startProcessing_persistPage(j, ok)
  \/ \E ok \in Outcomes : startProcessing_publishPage(j, ok)
  \/ \E ok \in Outcomes : startProcessing_completeJob(j, ok)
  \/ \E ok \in Outcomes : startProcessing_completeDocument(j, ok)
  \/ \E ok \in Outcomes : startProcessing_publishCompletion(j, ok)
  \/ \E ok \in BOOLEAN : startProcessing_persistFailure(j, ok)
  \/ \E ok \in Outcomes : startProcessing_publishFailure(j, ok)

\* A single upload whose background task is scheduled fairly: every awaited
\* store write and publish settles, and the event loop then runs the task's
\* continuation.
NextTask ==
  /\ SoloIngest \/ Worker(MaxTasks)
  /\ UNCHANGED <<registry, sockets>>

SpecTask ==
  /\ Init
  /\ [][NextTask]_vars
  /\ \A j \in JobIds : WF_vars(Task(j) /\ UNCHANGED <<registry, sockets>>)

\* The worker with an unreliable Redis: any publish may fail, however many
\* have failed before; store writes fail within the budget.
LossyWorker ==
  \/ \E c \in CallIds : processDocument_findDocument(c)
  \/ \E c \in CallIds : processDocument_findRunningJob(c)
  \/ \E c \in CallIds, ok \in Outcomes : processDocument_saveJob(c, ok)
  \/ \E c \in CallIds, ok \in Outcomes :
       /\ ok => TasksStarted < MaxTasks
       /\ processDocument_updateDocument(c, ok)
  \/ \E j \in JobIds, ok \in Outcomes : startProcessing_running(j, ok)
  \/ \E j \in JobIds, d \in BOOLEAN : startProcessing_publishStart(j, d)
  \/ \E j \in JobIds, ok \in Outcomes : startProcessing_persistPage(j, ok)
  \/ \E j \in JobIds, d \in BOOLEAN : startProcessing_publishPage(j, d)
  \/ \E j \in JobIds, ok \in Outcomes : startProcessing_completeJob(j, ok)
  \/ \E j \in JobIds, ok \in Outcomes : startProcessing_completeDocument(j, ok)
  \/ \E j \in JobIds, d \in BOOLEAN : startProcessing_publishCompletion(j, d)
  \/ \E j \in JobIds, ok \in BOOLEAN : startProcessing_persistFailure(j, ok)
  \/ \E j \in JobIds, d \in BOOLEAN : startProcessing_publishFailure(j, d)

NextLossy ==
  /\ SoloIngest \/ LossyWorker
  /\ UNCHANGED <<registry, sockets>>

SpecLossy == Init /\ [][NextLossy]_vars

\* Concurrent StartProcessing calls: two background tasks may overlap.
NextRace ==
  /\ Ingest \/ Worker(RaceMaxTasks) \/ DirectCalls
  /\ UNCHANGED <<registry, sockets>>

SpecRace == Init /\ [][NextRace]_vars

\* retryProcessing on the upload's jobs; a retry's dispatch may start one
\* more task.
NextRetry ==
  /\ SoloIngest \/ Worker(MaxTasks + MaxRetries) \/ Retries
  /\ UNCHANGED <<registry, sockets>>

SpecRetry == Init /\ [][NextRetry]_vars

\* Scenario of one progress request: the first connection slot only.
SoloStream ==
  /\ SseStreams
  /\ \A c \in ConnIds : conn'[c] # IdleConn => \A v \in ConnIds : v >= c

\* One upload observed through the SSE bridge by one connection.
NextSse ==
  /\ SoloIngest \/ Worker(MaxTasks) \/ SoloStream
  /\ UNCHANGED <<registry, sockets>>

SpecSse == Init /\ [][NextSse]_vars

\* Progress requests that stay connected: they receive the snapshot, events
\* and heartbeats until a terminal event or the lifetime timer ends them.
Watchers ==
  \/ \E c \in ConnIds, j \in JobIds : streamProgress_open(c, j)
  \/ \E c \in ConnIds : streamProgress_findJob(c)
  \/ \E c \in ConnIds : streamProgress_snapshot(c)
  \/ \E c \in ConnIds : streamProgress_heartbeat(c)
  \/ \E c \in ConnIds : streamProgress_timeout(c)

\* One upload watched by several connections at once.
NextPair ==
  /\ SoloIngest \/ Worker(MaxTasks) \/ Watchers
  /\ UNCHANGED <<registry, sockets>>

SpecPair == Init /\ [][NextPair]_vars

\* One connection that stays connected; its lifetime timer, once armed,
\* fires unless it is cleared.
SoloWatcher ==
  /\ Watchers
  /\ \A c \in ConnIds : conn'[c] # IdleConn => \A v \in ConnIds : v >= c

NextWatch ==
  /\ SoloIngest \/ Worker(MaxTasks) \/ SoloWatcher
  /\ UNCHANGED <<registry, sockets>>

SpecWatch ==
  /\ Init
  /\ [][NextWatch]_vars
  /\ \A c \in ConnIds :
       WF_vars(streamProgress_timeout(c) /\ UNCHANGED <<registry, sockets>>)

\* The subscriber registry with its consumers, the connection and publishers;
\* consumers arrive in the order of their numbers.
NextBus ==
  /\ \/ \E c \in Consumers, ch \in Channels :
          /\ \A d \in Consumers : d < c => consumer[d].state # "idle"
          /\ subscribe(c, ch)
     \/ \E c \in Consumers : unsubscribe(c)
     \/ \E ok \in BOOLEAN : client_reply(ok)
     \/ \E ch \in Channels, kind \in MessageKinds, L \in SUBSET Consumers :
          publish(ch, kind, L)
     \/ \E c \in Consumers : drain(c)
  /\ UNCHANGED sockets

SpecBus == Init /\ [][NextBus]_vars

\* events sent by the clients so far
RECURSIVE Emitted(_)
Emitted(S) ==
  IF S = {} THEN 0
  ELSE LET s == CHOOSE x \in S : TRUE IN sockets[s].sent + Emitted(S \ {s})

\* The clients of the annotations namespace; they connect in the order of
\* their numbers, each to one of the gateway processes in `hosts`.
Gateway(hosts) ==
  \/ \E s \in SocketIds, i \in hosts :
       /\ \A t \in SocketIds : t < s => sockets[t].state # "new"
       /\ handleConnection(s, i)
  \/ \E s \in SocketIds : handleDisconnect(s)
  \/ \E s \in SocketIds, dto \in JoinDocumentDtos : handleJoinDocument(s, dto)
  \/ /\ Emitted(SocketIds) < MaxEmits
     /\ \/ \E s \in SocketIds, dto \in CursorMoveDtos :
             handleCursorMove(s, dto)
        \/ \E s \in SocketIds, dto \in AddAnnotationDtos :
             handleAddAnnotation(s, dto)

\* One gateway process.
NextRoom == Gateway({1})

SpecRoom == Init /\ [][NextRoom]_vars

\* Several gateway processes behind one address, no sticky routing.
NextCluster == Gateway(Instances)

SpecCluster == Init /\ [][NextCluster]_vars

\* One GetProgress stream at a time.
SoloObserver ==
  /\ GrpcStreams
  /\ \A o \in ObsIds : obs'[o] # IdleObs => \A v \in ObsIds : v >= o

NextGet ==
  /\ SoloIngest \/ Worker(MaxTasks) \/ SoloObserver
  /\ UNCHANGED <<registry, sockets>>

SpecGet == Init /\ [][NextGet]_vars

\* StartProcessing called once per client slot with a known, unknown or
\* empty document id and owner.
AnyArguments ==
  \E k \in DirectIds, d \in DocIds \cup {0}, usr \in Users \cup {""} :
    /\ rpc[DirectCall(k)].wpc = "idle"
    /\ processDocument_call(k, d, usr)

NextCalls ==
  /\ SoloIngest \/ Worker(MaxTasks) \/ AnyArguments
  /\ UNCHANGED <<registry, sockets>>

SpecCalls == Init /\ [][NextCalls]_vars

\* The mutations and the worker's RPC called by any user: StartProcessing
\* once per client slot, retryProcessing and deleteDocument.
AnyCaller ==
  \/ \E k \in DirectIds, d \in DocIds, usr \in Users :
       /\ rpc[DirectCall(k)].wpc = "idle"
       /\ processDocument_call(k, d, usr)
  \/ \E r \in RetryIds, j \in JobIds, usr \in Users :
       retryProcessing_find(r, j, usr)
  \/ \E r \in RetryIds, ok \in Outcomes : retryProcessing_reset(r, ok)
  \/ \E r \in RetryIds : retryProcessing_dispatch(r)
  \/ \E r \in RetryIds : retryProcessing_return(r)
  \/ \E d \in DocIds, usr \in Users : deleteDocument(d, usr)

\* One upload of the first user; the other user and the owner call the
\* worker and the mutations on it.
NextOwner ==
  /\ SoloIngest \/ Worker(MaxTasks) \/ AnyCaller
  /\ UNCHANGED <<registry, sockets>>

SpecOwner == Init /\ [][NextOwner]_vars

\* One upload observed through the worker's GetProgress stream.
NextObs ==
  /\ SoloIngest \/ Worker(MaxTasks) \/ GrpcStreams
  /\ UNCHANGED <<registry, sockets>>

SpecObs == Init /\ [][NextObs]_vars

\* ------------------------------------------------------------------ claims

\* the job the worker ran (or returned) for the dispatch of upload u
DispatchedJob(u) == rpc[UploadCall(u)].jobId

Accepted(u) ==
  /\ upload[u].pc = "answered"
  /\ upload[u].http = HttpStatus_CREATED

Deferred(u) ==
  /\ upload[u].pc = "answered"
  /\ upload[u].documentId # 0
  /\ upload[u].http # HttpStatus_CREATED

\* an event was published on doc:{j}:progress in this step
Published(j) == lastEvent'[j] # lastEvent[j]

\* C1: for every committed upload exactly one Document and exactly one
\* ProcessingJob exist for it, and that job's documentId is the document's id,
\* in every state after the commit (also after the worker accepted the call).
C1_OneJobPerUpload ==
  \A u \in UploadIds :
    upload[u].documentId # 0 =>
      /\ DocExists(upload[u].documentId)
      /\ JobsOf(upload[u].documentId) = {upload[u].jobId}
      /\ jobs[upload[u].jobId].documentId = upload[u].documentId

\* C2: the jobId handed to the client in a 201 response is the job whose
\* channel the worker publishes on: when the worker publishes COMPLETED for
\* the run started by the upload's dispatch, every stream subscribed on the
\* returned jobId emits stage=COMPLETED, percent=100 and closes.
C2_StreamOnReturnedJobCompletes ==
  [][\A u \in UploadIds, c \in ConnIds :
       (/\ Accepted(u)
        /\ DispatchedJob(u) # 0
        /\ Published(DispatchedJob(u))
        /\ lastEvent'[DispatchedJob(u)].status = "COMPLETED"
        /\ conn[c].jobId = upload[u].body.jobId
        /\ conn[c].sub)
         => /\ conn'[c].stage = "COMPLETED"
            /\ conn'[c].percent = 100
            /\ conn'[c].pc = "closed"]_vars

\* the step in which upload u is answered after its dispatch call failed
AnswersFailedDispatch(u) ==
  /\ upload[u].pc = "dispatching"
  /\ upload'[u].pc = "answered"
  /\ rpc[UploadCall(u)].client = "failed"

C4_DeferredBodyIsResponseDto ==
  \A u \in UploadIds :
    (upload[u].pc = "answered" /\ upload[u].http = 202) =>
      /\ upload[u].body.fields = ResponseDtoFields
      /\ upload[u].body.jobId = upload[u].jobId

\* C5: no Document has two Running jobs at once.
C5_AtMostOneRunningJob ==
  \A d \in DocIds : Cardinality(RunningJobsOf(d)) <= 1

\* C6: a StartProcessing call answered through the running-job guard, made
\* while the job returned by an earlier guarded call on the same document is
\* still Running, returns that same job, and creates no job row, starts no
\* task and leaves the Document unchanged.
C6_GuardedCallsReturnSameJob ==
  [][\A c1, c2 \in CallIds :
       (/\ c1 # c2
        /\ rpc[c1].wpc = "done" /\ rpc[c1].path = "existing"
        /\ rpc'[c1] = rpc[c1]
        /\ jobs[rpc[c1].jobId].status = "running"
        /\ rpc[c2].wpc # "done"
        /\ rpc'[c2].wpc = "done" /\ rpc'[c2].path = "existing"
        /\ rpc'[c2].documentId = rpc[c1].documentId)
         => /\ rpc'[c2].jobId = rpc[c1].jobId
            /\ jobs' = jobs /\ task' = task /\ docs' = docs]_vars

\* C7 (as claimed): no event with status S and progress P is published unless
\* the job's stored row was written with status S (and with progress P for
\* Running and Completed events) before that publish.
C7_WriteBeforeEveryPublish ==
  [][\A j \in JobIds :
       Published(j) =>
         /\ JobExists(j)
         /\ toUpperCase(jobs[j].status) = lastEvent'[j].status
         /\ lastEvent'[j].status \in {"RUNNING", "COMPLETED"}
              => jobs[j].progress = lastEvent'[j].progress]_vars

\* C7 (amended): a Running or Completed event with progress P is published
\* only when the job's stored row has been written with that status and
\* progress P; a Failed event is published only after the attempt to persist
\* Failed has returned, and if that attempt succeeded the row is not left in
\* Pending or Running by the task.
C7_WriteBeforePublish ==
  [][\A j \in JobIds :
       Published(j) =>
         /\ lastEvent'[j].status \in {"RUNNING", "COMPLETED", "FAILED"}
         /\ lastEvent'[j].status \in {"RUNNING", "COMPLETED"} =>
              /\ JobExists(j)
              /\ toUpperCase(jobs[j].status) = lastEvent'[j].status
              /\ jobs[j].progress = lastEvent'[j].progress
         /\ lastEvent'[j].status = "FAILED" =>
              /\ task[j].failPersist # "none"
              /\ (task[j].failPersist = "ok" /\ \A r \in RetryIds :
                    retry[r].jobId # j) => jobs[j].status = "failed"]_vars

\* a Failed event published although persisting Failed had failed
C7_Witness ==
  \E j \in JobIds :
    /\ lastEvent[j].status = "FAILED"
    /\ task[j].failPersist = "error"
    /\ jobs[j].status = "running"

\* progress carried by the events of a 12-page run, page 0 (start) to page 12
PageSequence == <<0, 8, 16, 24, 32, 40, 48, 55, 63, 71, 79, 87, 95>>

C9_StreamProgressNonDecreasing ==
  [][\A o \in ObsIds :
       (obs[o].count > 0 /\ obs'[o].count > obs[o].count)
         => obs'[o].progress >= obs[o].progress]_vars

\* C10: once a job's stored status is Completed or Failed, no operation
\* changes that status again.
C10_TerminalStatusIsFinal ==
  [][\A j \in 1..Len(jobs) :
       jobs[j].status \in {"completed", "failed"}
         => jobs'[j].status = jobs[j].status]_vars

\* C11: in every reachable state a job's completedAt is unset exactly when its
\* stored status is Pending or Running (set exactly when Completed or Failed),
\* also after a Failed job was reset by a retry.
C11_CompletedAtIffNotTerminal ==
  \A j \in 1..Len(jobs) :
    (~jobs[j].completedAt) <=> jobs[j].status \in {"pending", "running"}

\* a retry has reset a Failed job: it is Pending again with completedAt unset,
\* and its error message and start time are cleared
C11_Witness ==
  \E r \in RetryIds :
    /\ retry[r].pc = "findDoc"
    /\ jobs[retry[r].jobId] = NewJob(retry[r].documentId)
    /\ task[retry[r].jobId].pc = "end"

\* a store write of the task of job j threw in this step
Throws(j) ==
  /\ task[j].pc \in {"start_w", "page_w", "done_wj", "done_wd"}
  /\ task'[j] # task[j]
  /\ faults' # faults

PublishAttempt(j) ==
  /\ task[j].pc \in {"start_p", "page_p", "done_p", "fail_p"}
  /\ task'[j] # task[j]

\* C13: a failed publish is swallowed by the task: the publish step changes
\* no stored row and the task goes on as after a delivered publish; so when
\* every write succeeded, however many publishes failed, the task ends with
\* the job Completed at 100 and the Document Completed with its page count.
C13_PublishFailureLeavesStoreTrajectory ==
  /\ [][\A j \in JobIds :
          PublishAttempt(j) =>
            /\ jobs' = jobs
            /\ docs' = docs
            /\ task'[j].pc =
                 CASE task[j].pc = "start_p" -> "page_w"
                   [] task[j].pc = "page_p" ->
                        IF task[j].page < SIMULATED_PAGE_COUNT
                        THEN "page_w" ELSE "done_wj"
                   [] OTHER -> "end"]_vars
  /\ [](\A j \in JobIds :
          (task[j].pc = "end" /\ task[j].failPersist = "none") =>
            /\ jobs[j].status = "completed"
            /\ jobs[j].progress = 100
            /\ jobs[j].completedAt
            /\ docs[task[j].documentId].status = "completed"
            /\ docs[task[j].documentId].pageCount = SIMULATED_PAGE_COUNT)

\* every publish of a run failed (start, twelve pages, completion: no event
\* ever reached the channel) and the rows are Completed all the same
C13_Witness ==
  \E j \in JobIds :
    /\ task[j].pc = "end"
    /\ lastEvent[j] = NoEvent
    /\ faults >= SIMULATED_PAGE_COUNT + 2
    /\ jobs[j].status = "completed"
    /\ jobs[j].progress = 100
    /\ docs[task[j].documentId].status = "completed"
    /\ docs[task[j].documentId].pageCount = SIMULATED_PAGE_COUNT

\* C14: a progress request on an unknown job is answered 404 and the
\* text/event-stream headers are never sent for it: none is flushed while the
\* job's existence is still being validated, none once it was rejected.
C14_UnknownJobAnswers404 ==
  \A c \in ConnIds :
    /\ conn[c].pc \in {"finding", "found"} => ~conn[c].headers
    /\ conn[c].pc = "rejected" =>
         /\ conn[c].http = 404
         /\ ~conn[c].headers

\* C15: on every connection the frames carry the ids 1, 2, 3, ... without a
\* gap (the n-th frame written has id n, the snapshot has id 1); a heartbeat
\* neither takes an id nor changes the counter; and the counter of one
\* connection is not moved by frames written to another connection on the
\* same job.
C15_FrameIdsGaplessPerConnection ==
  /\ [](\A c \in ConnIds :
          /\ conn[c].id = conn[c].frames
          /\ conn[c].eventCounter = conn[c].frames)
  /\ [][\A c \in ConnIds :
          /\ conn'[c].frames \in {conn[c].frames, conn[c].frames + 1}
          /\ conn'[c].frames = conn[c].frames + 1 =>
                conn'[c].id = conn[c].id + 1
          /\ (conn[c].frames = 0 /\ conn'[c].frames = 1) =>
                /\ conn'[c].id = 1
                /\ conn'[c].event = "progress"
                /\ \A d \in ConnIds \ {c} : conn'[d] = conn[d]
          /\ (conn'[c].beat /\ ~conn[c].beat) =>
                /\ conn'[c].eventCounter = conn[c].eventCounter
                /\ conn'[c].frames = conn[c].frames
                /\ conn'[c].id = conn[c].id
                /\ \A d \in ConnIds \ {c} : conn'[d] = conn[d]]_vars

\* two connections on the same job, opened at different times: both received
\* frames, their last ids differ, and one of them has a heartbeat after its
\* last frame
C15_Witness ==
  \E c, d \in ConnIds :
    /\ c # d
    /\ conn[c].jobId = conn[d].jobId
    /\ conn[c].pc = "open"
    /\ conn[d].pc = "open"
    /\ conn[c].id >= 3
    /\ conn[d].id >= 2
    /\ conn[c].id > conn[d].id
    /\ conn[d].beat

\* what connection c holds: the two timers and the channel subscription
Holds(k) == <<k.heartbeatTimer, k.timeoutTimer, k.sub>>

\* C16: teardown is single-shot.  Whichever of terminal event, client
\* disconnect, lifetime timer, upstream error and upstream completion fire,
\* and in whatever order, the timers and the subscription are released
\* together, in the one step that sets closed, and cleanup's body runs at
\* most once; closed never turns false again; once closed no frame and no
\* heartbeat is written and nothing is armed again.
C16_TeardownSingleShot ==
  /\ [](\A c \in ConnIds :
          /\ conn[c].teardowns <= 1
          /\ conn[c].pc = "closed" <=> conn[c].teardowns = 1
          /\ conn[c].pc = "closed" => Holds(conn[c]) = <<FALSE, FALSE, FALSE>>)
  /\ [][\A c \in ConnIds :
          /\ conn[c].pc = "closed" =>
                conn'[c] = [conn[c] EXCEPT !.gone = conn'[c].gone]
          /\ (Holds(conn'[c]) # Holds(conn[c])
               /\ Holds(conn[c]) # <<FALSE, FALSE, FALSE>>) =>
                /\ Holds(conn[c]) = <<TRUE, TRUE, TRUE>>
                /\ Holds(conn'[c]) = <<FALSE, FALSE, FALSE>>
                /\ conn'[c].pc = "closed"
                /\ conn'[c].teardowns = 1]_vars

\* the lifetime timer tore the connection down and the transport's close
\* event arrived afterwards: a second trigger on a closed connection
C16_Witness ==
  \E c \in ConnIds :
    /\ conn[c].pc = "closed"
    /\ conn[c].event = "timeout"
    /\ conn[c].gone
    /\ conn[c].teardowns = 1

\* C17: every event published on the channel of a subscribed connection
\* yields exactly one progress frame with the event's stage and percent; after
\* a non-terminal event the connection stays subscribed, after a terminal one
\* it is torn down in the same step, so the terminal frame is its last frame;
\* an event published once the connection is closed yields no frame.
C17_OneFramePerEventTerminalLast ==
  [][\A c \in ConnIds :
       LET j == conn[c].jobId IN
       /\ (conn[c].sub /\ Published(j)) =>
             /\ conn'[c].frames = conn[c].frames + 1
             /\ conn'[c].event = "progress"
             /\ conn'[c].stage = lastEvent'[j].status
             /\ conn'[c].percent = lastEvent'[j].progress
             /\ IF lastEvent'[j].status \in {"COMPLETED", "FAILED"}
                THEN /\ conn'[c].pc = "closed"
                     /\ Holds(conn'[c]) = <<FALSE, FALSE, FALSE>>
                ELSE /\ conn'[c].pc = "open"
                     /\ Holds(conn'[c]) = <<TRUE, TRUE, TRUE>>
       /\ (conn[c].pc = "closed" /\ j \in JobIds /\ Published(j)) =>
             conn'[c] = conn[c]
       /\ (conn[c].pc = "closed" /\ conn[c].stage \in {"COMPLETED", "FAILED"}) =>
             /\ conn'[c].frames = conn[c].frames
             /\ conn'[c].stage = conn[c].stage]_vars

\* a connection that received events up to the completion event and was
\* closed right after its frame
C17_Witness ==
  \E c \in ConnIds :
    /\ conn[c].pc = "closed"
    /\ conn[c].event = "progress"
    /\ conn[c].stage = "COMPLETED"
    /\ conn[c].percent = 100
    /\ conn[c].frames >= 3
    /\ lastEvent[conn[c].jobId] = CompletionEvent

\* C18: when the row read for the snapshot is terminal, the connection gets
\* exactly one progress frame, built from that row (stage COMPLETED and
\* percent 100 for a completed job), the response is ended, and the
\* connection never subscribes, never starts a timer and never writes again.
C18_TerminalSnapshotEndsAtOnce ==
  [][\A c \in ConnIds :
       /\ (/\ conn[c].pc = "found"
           /\ conn[c].job.status \in {"completed", "failed"}
           /\ conn'[c].pc # "found") =>
             /\ conn'[c].pc = "ended"
             /\ conn'[c].frames = 1
             /\ conn'[c].id = 1
             /\ conn'[c].event = "progress"
             /\ conn'[c].stage = toUpperCase(conn[c].job.status)
             /\ conn'[c].percent = conn[c].job.progress
             /\ conn[c].job.status = "completed" =>
                  /\ conn'[c].stage = "COMPLETED"
                  /\ conn'[c].percent = 100
             /\ Holds(conn'[c]) = <<FALSE, FALSE, FALSE>>
       /\ conn[c].pc = "ended" =>
             conn'[c] = [conn[c] EXCEPT !.gone = conn'[c].gone]]_vars

\* a connection opened on a completed job: one frame COMPLETED/100, ended
C18_Witness ==
  \E c \in ConnIds :
    /\ conn[c].pc = "ended"
    /\ conn[c].frames = 1
    /\ conn[c].stage = "COMPLETED"
    /\ conn[c].percent = 100
    /\ ~conn[c].sub

\* connection c got a Pending snapshot and no event since
QuietPending(c) ==
  /\ conn[c].pc = "open"
  /\ conn[c].frames = 1
  /\ conn[c].stage = "PENDING"

\* C19: a connection on a non-terminal job is eventually closed: its lifetime
\* timer writes exactly one timeout frame and tears it down.  On a Pending job
\* that is never run, the connection gets the snapshot (PENDING, 0), then
\* nothing but heartbeats, then the one timeout frame, and is closed.
C19_LifetimeBoundsEveryStream ==
  /\ \A c \in ConnIds : (conn[c].pc = "open") ~> (conn[c].pc = "closed")
  /\ [][\A c \in ConnIds :
          /\ conn'[c].event = "timeout" /\ conn[c].event # "timeout" =>
                /\ conn[c].timeoutTimer
                /\ conn'[c].frames = conn[c].frames + 1
                /\ conn'[c].pc = "closed"
                /\ Holds(conn'[c]) = <<FALSE, FALSE, FALSE>>
          /\ conn[c].event = "timeout" => conn'[c] = conn[c]
          /\ QuietPending(c) => conn[c].percent = 0
          /\ (/\ QuietPending(c)
              /\ ~Published(conn[c].jobId)
              /\ conn'[c] # conn[c]) =>
                \/ conn'[c] = [conn[c] EXCEPT !.beat = TRUE]
                \/ /\ conn'[c].event = "timeout"
                   /\ conn'[c].frames = 2
                   /\ conn'[c].pc = "closed"]_vars

\* the upload's job was never run: its connection saw the Pending snapshot
\* and was closed by the timeout frame, the second and last frame
C19_Witness ==
  \E c \in ConnIds :
    /\ conn[c].pc = "closed"
    /\ conn[c].event = "timeout"
    /\ conn[c].frames = 2
    /\ jobs[conn[c].jobId].status = "pending"
    /\ task[conn[c].jobId].pc = "none"

\* C20: a client disconnect at any point after the request was accepted, also
\* while the job is still being validated, tears the connection down: once
\* the transport's close event has been emitted, the connection holds no
\* subscription and no timer.
C20_DisconnectReleasesEverything ==
  \A c \in ConnIds :
    conn[c].gone => Holds(conn[c]) = <<FALSE, FALSE, FALSE>>

\* C21: a connection opened on a job that was not terminal when its row was
\* read gets the job's terminal frame and closes on it: once the job is
\* terminal in the store and its terminal event has been published, no
\* connection on it is still subscribed and waiting, whatever the order of the
\* connection's row read and subscription with the worker's writes and
\* publishes.
C21_TerminalEventReachesOpenConnection ==
  \A c \in ConnIds :
    (/\ conn[c].pc = "open"
     /\ jobs[conn[c].jobId].status \in {"completed", "failed"})
      => lastEvent[conn[c].jobId].status \notin {"COMPLETED", "FAILED"}

\* C22: within one connection the percent of successive progress frames
\* (the snapshot, then one frame per event) never decreases.
C22_FramePercentNonDecreasing ==
  [][\A c \in ConnIds :
       (/\ conn[c].frames > 0
        /\ conn[c].event = "progress"
        /\ conn'[c].frames > conn[c].frames
        /\ conn'[c].event = "progress")
         => conn'[c].percent >= conn[c].percent]_vars

\* the subscription of connection c reports an upstream error in this step
UpstreamError(c) ==
  /\ conn[c].sub
  /\ faults' # faults
  /\ conn'[c] # conn[c]

\* C23: an upstream error on a subscribed connection writes exactly one error
\* frame (stage FAILED, percent 0) and tears the connection down in the same
\* step; an error frame is written on no other occasion, and after it the
\* connection writes no frame and holds nothing.
C23_UpstreamErrorOneFrameThenClose ==
  [][\A c \in ConnIds :
       /\ UpstreamError(c) =>
             /\ conn'[c].frames = conn[c].frames + 1
             /\ conn'[c].id = conn[c].eventCounter + 1
             /\ conn'[c].event = "error"
             /\ conn'[c].stage = "FAILED"
             /\ conn'[c].percent = 0
             /\ conn'[c].pc = "closed"
             /\ Holds(conn'[c]) = <<FALSE, FALSE, FALSE>>
       /\ (conn'[c].event = "error" /\ conn[c].event # "error") =>
             UpstreamError(c)
       /\ conn[c].event = "error" =>
             /\ conn'[c].frames = conn[c].frames
             /\ conn'[c].event = "error"
             /\ conn'[c].pc = "closed"
             /\ Holds(conn'[c]) = <<FALSE, FALSE, FALSE>>]_vars

\* a connection that had sent its snapshot was closed by the error frame, its
\* second frame, and the transport's close event arrived afterwards
C23_Witness ==
  \E c \in ConnIds :
    /\ conn[c].pc = "closed"
    /\ conn[c].event = "error"
    /\ conn[c].stage = "FAILED"
    /\ conn[c].frames = 2
    /\ conn[c].id = 2
    /\ conn[c].gone

\* C27: GetProgress on an unknown job errors (not_found) with no update
\* emitted; on a job whose row read is Completed or Failed it emits exactly one
\* update carrying the row's status and progress and completes, without ever
\* subscribing to the channel; nothing follows in either case.
C27_UnknownOrTerminalJobEndsAtOnce ==
  [][\A o \in ObsIds :
       /\ (obs[o].pc = "found" /\ obs'[o].pc # "found") =>
             /\ obs[o].job.status = "none" =>
                  /\ obs'[o].pc = "errored"
                  /\ obs'[o].count = 0
                  /\ ~obs'[o].sub
             /\ obs[o].job.status \in {"completed", "failed"} =>
                  /\ obs'[o].pc = "completed"
                  /\ obs'[o].count = 1
                  /\ obs'[o].status = obs[o].job.status
                  /\ obs'[o].progress = obs[o].job.progress
                  /\ ~obs'[o].sub
       /\ (obs[o].pc = "errored" \/ (obs[o].pc = "completed" /\ ~obs[o].sub)) =>
             obs'[o] = obs[o]]_vars

\* a stream opened on a completed job emitted the row as its only update and
\* completed; it never subscribed
C27_Witness ==
  \E o \in ObsIds :
    /\ obs[o].pc = "completed"
    /\ obs[o].count = 1
    /\ obs[o].status = "completed"
    /\ obs[o].progress = 100
    /\ ~obs[o].sub

\* C28: once the caller has cancelled a GetProgress stream, no subscription to
\* the job's channel made for that stream is registered, whether or not a
\* terminal event is published later.
C28_CancelUnsubscribes ==
  \A o \in ObsIds : obs[o].cancelled => ~obs[o].sub

\* consumer c has subscribed to channel ch and has not unsubscribed
Subscribed(c, ch) ==
  /\ consumer[c].state = "attached"
  /\ consumer[c].channel = ch

\* C24: a subscriber receives every message published on its channel between
\* its subscription and its unsubscription, whole and in publication order:
\* every publish of a message on a channel appends that message to what each
\* consumer subscribed to the channel has received.
C24_SubscribedReceiveEveryMessage ==
  [][\A ch \in Channels, L \in SUBSET Consumers :
       publish(ch, "json", L) =>
         \A c \in Consumers :
           Subscribed(c, ch) =>
             consumer'[c].received =
               Append(consumer[c].received, redis'.published)]_vars

\* an UNSUBSCRIBE for channel ch is sent in this step
SendsUnsubscribe(ch) ==
  /\ redis'.cmds # redis.cmds
  /\ redis.cmds # <<>> => redis'.cmds # Tail(redis.cmds)
  /\ redis'.cmds[Len(redis'.cmds)].op = "UNSUBSCRIBE"
  /\ redis'.cmds[Len(redis'.cmds)].channel = ch

\* C25: the registry holds exactly the consumers that subscribed and have not
\* left, under their channel, and never an empty set; a consumer that leaves
\* (by itself, by an error, or inside a delivery) changes no other consumer,
\* and a delivery that some consumers leave still reaches every consumer of
\* the channel; UNSUBSCRIBE for a channel is sent in exactly the steps in
\* which the channel's last consumers leave.
C25_OneUpstreamSubscriptionPerChannel ==
  /\ [](\A ch \in Channels :
          /\ ch \in DOMAIN subjects => subjects[ch] # {}
          /\ SubjectsOf(subjects, ch) = {c \in Consumers : Subscribed(c, ch)})
  /\ [][\A ch \in Channels :
         /\ SendsUnsubscribe(ch) <=>
               (ch \in DOMAIN subjects /\ ch \notin DOMAIN subjects')
         /\ (ch \in DOMAIN subjects /\ ch \notin DOMAIN subjects') =>
               \A c \in subjects[ch] : consumer'[c].state # "attached"
         /\ \A c \in Consumers :
              (Subscribed(c, ch) /\ consumer'[c].state = "attached") =>
                 /\ c \in SubjectsOf(subjects', ch)
                 /\ \A L \in SUBSET Consumers :
                      (publish(ch, "json", L) /\ ch \in redis.active) =>
                         consumer'[c].received =
                           Append(consumer[c].received, redis'.published)]_vars

\* two consumers shared a channel; one left inside a delivery and no
\* UNSUBSCRIBE was sent; the other received that message and the next one
\* and left afterwards, which sent the UNSUBSCRIBE that is now pending
C25_Witness ==
  \E c, d \in Consumers :
    /\ c # d
    /\ consumer[c].channel = consumer[d].channel
    /\ consumer[c].state = "left"
    /\ consumer[d].state = "left"
    /\ Len(consumer[c].received) = 1
    /\ Len(consumer[d].received) = 2
    /\ consumer[d].received[1] = consumer[c].received[1]
    /\ consumer[c].channel \notin DOMAIN subjects
    /\ redis.cmds = <<[op |-> "UNSUBSCRIBE", channel |-> consumer[c].channel,
                       by |-> 0]>>

\* C26: a consumer that is behind the publisher by more than the buffer bound
\* has been terminated with an overflow error.
C26_OverflowTerminatesSlowConsumer ==
  \A c \in Consumers :
    consumer[c].backlog > BufferBound => consumer[c].state = "errored"

\* socket t is connected and has joined room doc:{d}
Joined(t, d) ==
  /\ sockets[t].state = "connected"
  /\ d \in sockets[t].rooms

\* the events that a cursor-move and an add-annotation of socket s fan out
CursorChanged(s, dto) ==
  [event |-> "cursor-changed", clientId |-> s, room |-> dto.documentId,
   x |-> dto.x, y |-> dto.y, content |-> ""]

AnnotationAdded(s, dto) ==
  [event |-> "annotation-added", clientId |-> s, room |-> dto.documentId,
   x |-> 0, y |-> 0, content |-> dto.content]

\* C29: a cursor-move or add-annotation for document D sent by socket s puts
\* one cursor-changed or annotation-added event carrying s's client id in the
\* inbox of every socket that has joined doc:D except s, and changes the
\* inbox of no other socket (not of s, not of a socket outside the room); a
\* message that fails validation reaches nobody, and no inbox changes in a
\* step that is not the handling of such a message.
C29_RoomBroadcastExceptSender ==
  [][/\ \A s \in SocketIds :
          sockets'[s].sent # sockets[s].sent =>
            /\ \A dto \in CursorMoveDtos :
                 handleCursorMove(s, dto) =>
                   \A t \in SocketIds :
                     sockets'[t].inbox =
                       IF /\ t # s
                          /\ Joined(t, dto.documentId)
                          /\ dto.documentId \in Rooms
                       THEN Append(sockets[t].inbox, CursorChanged(s, dto))
                       ELSE sockets[t].inbox
            /\ \A dto \in AddAnnotationDtos :
                 handleAddAnnotation(s, dto) =>
                   \A t \in SocketIds :
                     sockets'[t].inbox =
                       IF /\ t # s
                          /\ Joined(t, dto.documentId)
                          /\ dto.documentId \in Rooms
                          /\ dto.content # ""
                       THEN Append(sockets[t].inbox, AnnotationAdded(s, dto))
                       ELSE sockets[t].inbox
     /\ (\A s \in SocketIds : sockets'[s].sent = sockets[s].sent) =>
          \A t \in SocketIds : sockets'[t].inbox = sockets[t].inbox]_vars

\* a socket that joined a room sent an event to it: the other socket of the
\* room has exactly that event, the sender has nothing
C29_Witness ==
  \E s, t \in SocketIds, d \in Rooms :
    /\ s # t
    /\ Joined(s, d)
    /\ Joined(t, d)
    /\ sockets[s].sent = 1
    /\ sockets[s].inbox = <<>>
    /\ Len(sockets[t].inbox) = 1
    /\ sockets[t].inbox[1].clientId = s
    /\ sockets[t].inbox[1].room = d

\* C30: an event sent through one gateway process reaches the sockets that
\* joined the same room through any other gateway process.
C30_BroadcastCrossesInstances ==
  [][\A s, t \in SocketIds :
       /\ \A dto \in CursorMoveDtos :
            (/\ handleCursorMove(s, dto)
             /\ Joined(t, dto.documentId)
             /\ sockets[t].instance # sockets[s].instance)
              => sockets'[t].inbox =
                   Append(sockets[t].inbox, CursorChanged(s, dto))
       /\ \A dto \in AddAnnotationDtos :
            (/\ handleAddAnnotation(s, dto)
             /\ dto.content # ""
             /\ Joined(t, dto.documentId)
             /\ sockets[t].instance # sockets[s].instance)
              => sockets'[t].inbox =
                   Append(sockets[t].inbox, AnnotationAdded(s, dto))]_vars

\* the storage upload of request u fails in this step
StoreFails(u) ==
  /\ upload[u].pc = "storing"
  /\ upload'[u] # upload[u]
  /\ faults' # faults

\* C32: when the upload of the bytes to object storage fails, the request
\* answers 502, that step creates no Document or ProcessingJob row and sends
\* no StartProcessing call, and the request stays answered with no rows and
\* no dispatch of its own.
C32_StorageFailureAnswers502 ==
  /\ [](\A u \in UploadIds :
          upload[u].http = 502
            => /\ upload[u].pc = "answered"
               /\ upload[u].documentId = 0
               /\ upload[u].jobId = 0
               /\ rpc[UploadCall(u)] = IdleRpc)
  /\ [][\A u \in UploadIds :
          StoreFails(u)
            => /\ upload'[u].pc = "answered"
               /\ upload'[u].http = 502
               /\ UNCHANGED <<docs, jobs, rpc, task>>]_vars

C32_Witness ==
  \E u \in UploadIds :
    /\ upload[u].pc = "answered"
    /\ upload[u].http = 502
    /\ faults > 0

\* C35: whenever a task has ended with its job Failed, the job's Document is
\* not in status Processing any more.
C35_FailedTaskFailsDocument ==
  \A j \in JobIds :
    (/\ task[j].pc = "end"
     /\ JobExists(j)
     /\ jobs[j].status = "failed"
     /\ DocExists(task[j].documentId))
      => docs[task[j].documentId].status # "processing"

\* the handler of call c throws the internal error in this step
FailsInternal(c) ==
  /\ rpc[c].wpc \in {"save", "update"}
  /\ rpc'[c].wpc = "done"
  /\ rpc'[c].err = "internal"

\* C39: when StartProcessing fails with internal, the call has left no job
\* row of its own in the store, the Document's status is as before and no
\* background task was started.
C39_InternalFailureLeavesStoreUnchanged ==
  [][\A c \in CallIds :
       FailsInternal(c)
         => /\ rpc[c].jobId = 0
            /\ UNCHANGED <<docs, jobs, task>>]_vars

\* C40: when the worker has accepted the dispatch of a retry, the job it
\* answers with (the job it runs) is the job that retryProcessing reset to
\* Pending, and that job is the one a task was started for.
C40_RetriedJobIsTheJobRun ==
  \A r \in RetryIds :
    (/\ retry[r].pc = "dispatching"
     /\ rpc[RetryCall(r)].client = "ok")
      => /\ rpc[RetryCall(r)].jobId = retry[r].jobId
         /\ task[retry[r].jobId].pc \notin {"none", "end"}

\* C36: a Document's status only moves forward along Uploaded -> Processing
\* -> (Completed | Failed): a Completed or Failed document keeps its status
\* and a Processing document never goes back to Uploaded.
C36_DocumentStatusMovesForward ==
  [][\A d \in DocIds :
       (DocExists(d) /\ d <= Len(docs'))
         => /\ docs[d].status \in {"completed", "failed"}
                 => docs'[d].status = docs[d].status
            /\ docs[d].status = "processing"
                 => docs'[d].status # "uploaded"]_vars

\* C37: in every reachable state a Document's page count is set if and only
\* if its status is Completed.
C37_PageCountIffCompleted ==
  \A d \in DocIds :
    DocExists(d) => (docs[d].pageCount # 0 <=> docs[d].status = "completed")

\* the worker's handler takes up call c in this step
Handles(c) ==
  /\ rpc[c].wpc = "sent"
  /\ rpc'[c].wpc \notin {"sent", "lost"}

\* call c names a document that is stored and owned by the given owner
NamesOwnDocument(c) ==
  /\ DocExists(rpc[c].documentId)
  /\ docs[rpc[c].documentId].ownerId = rpc[c].userId

\* C34: StartProcessing with an empty documentId or ownerId fails with
\* invalid_argument, and for a document that does not exist or is not owned
\* by the given owner it fails with not_found; in both cases the call ends
\* there with no job row created, no Document modified and no task started.
C34_RejectedStartProcessingChangesNothing ==
  /\ [](\A c \in CallIds :
          rpc[c].err \in {"invalid_argument", "not_found"}
            => /\ rpc[c].wpc = "done"
               /\ rpc[c].jobId = 0
               /\ rpc[c].client = "failed")
  /\ [][\A c \in CallIds :
          (Handles(c) /\ ~NamesOwnDocument(c))
            => /\ rpc'[c].wpc = "done"
               /\ rpc'[c].err = IF rpc[c].documentId = 0 \/ rpc[c].userId = ""
                                THEN "invalid_argument" ELSE "not_found"
               /\ UNCHANGED <<docs, jobs, task>>]_vars

C34_Witness ==
  \E c \in CallIds :
    /\ rpc[c].err = "not_found"
    /\ DocExists(rpc[c].documentId)
    /\ docs[rpc[c].documentId].ownerId # rpc[c].userId

\* the transaction of createDocumentWithJob for request u fails in this step
CreationFails(u) ==
  /\ upload[u].pc = "persisting"
  /\ upload'[u] # upload[u]
  /\ faults' # faults

\* C31: every stored Document has at least one ProcessingJob; a failed
\* creation transaction leaves neither a Document nor a job row.
C31_DocumentHasAJob ==
  /\ [](\A d \in DocIds : DocExists(d) => JobsOf(d) # {})
  /\ [][\A u \in UploadIds :
          CreationFails(u) => UNCHANGED <<docs, jobs>>]_vars

C31_Witness ==
  \E u \in UploadIds :
    /\ DocExists(upload[u].documentId)
    /\ upload[u].jobId \in JobsOf(upload[u].documentId)
    /\ Cardinality(JobsOf(upload[u].documentId)) > 1

\* user usr owns the stored document d
Owns(usr, d) == DocExists(d) /\ docs[d].ownerId = usr

\* the rows of every document other than d are as before
OtherRowsKept(d) ==
  /\ Len(docs') = Len(docs)
  /\ Len(jobs') = Len(jobs)
  /\ \A e \in 1..Len(docs) : e # d => docs'[e] = docs[e]
  /\ \A j \in 1..Len(jobs) : jobs[j].documentId # d => jobs'[j] = jobs[j]

\* C38: a Document is mutable only by its owner. A document leaves the store
\* only through deleteDocument by its owner, which removes it together with
\* all of its jobs and nothing else; deleteDocument, retryProcessing and
\* StartProcessing with another user's identity fail and leave every
\* Document and ProcessingJob row unchanged.
C38_OnlyOwnerMutates ==
  [][/\ \A d \in DocIds :
          (DocExists(d) /\ docs' # docs /\ ~DocExists(d)')
            => /\ deleteDocument(d, docs[d].ownerId)
               /\ JobsOf(d)' = {}
               /\ OtherRowsKept(d)
     /\ \A d \in DocIds, usr \in Users :
          (DocExists(d) /\ ~Owns(usr, d) /\ docs' # docs)
            => ~deleteDocument(d, usr)
     /\ \A r \in RetryIds :
          (/\ retry[r].pc = "idle"
           /\ retry'[r] # retry[r]
           /\ retry'[r].outcome # "forbidden")
            => \E j \in JobIds, usr \in Users :
                 /\ retryProcessing_find(r, j, usr)
                 /\ JobExists(j) => Owns(usr, jobs[j].documentId)
     /\ \A r \in RetryIds :
          (/\ retry[r].pc = "idle"
           /\ retry'[r] # retry[r]
           /\ retry'[r].outcome = "forbidden")
            => UNCHANGED <<docs, jobs>>
     /\ \A c \in CallIds :
          (/\ Handles(c)
           /\ DocExists(rpc[c].documentId)
           /\ ~Owns(rpc[c].userId, rpc[c].documentId))
            => /\ rpc'[c].wpc = "done"
               /\ rpc'[c].err \in {"not_found", "invalid_argument"}
               /\ UNCHANGED <<docs, jobs, task>>]_vars

C38_Witness ==
  /\ \E d \in 1..Len(docs) :
       /\ docs[d] = NoDocumentRow
       /\ \E j \in 1..Len(jobs) : jobs[j] = NoJobRow
       /\ \A j \in 1..Len(jobs) : jobs[j].documentId # d
  /\ \E r \in RetryIds : retry[r].outcome = "forbidden"

\* the payload is missing or has no bytes
IsEmpty(file) == ~file.present \/ file.size = 0

\* request u is rejected by validation in this step
IsRejected(u) ==
  /\ upload'[u].pc = "answered"
  /\ upload'[u].http \in {400, 413, 415}
  /\ upload'[u].documentId = 0
  /\ upload'[u].jobId = 0
  /\ UNCHANGED <<docs, jobs, rpc, task, faults>>

====
